---- MODULE Spec2Model ----
(***************************************************************************)
(* Model of the LDC3114 driver (src/src/lib.rs, src/src/register.rs).      *)
(*                                                                         *)
(* The driver is a struct holding an I2C handle and five shadow bytes      *)
(* (sency0..sency3, lcdiv).  Every public method is one action: it runs    *)
(* the whole method body against a mock transport, a register file that   *)
(* stores what is written and answers reads from what it stores, and      *)
(* that records every bus transaction of the call.                        *)
(***************************************************************************)
EXTENDS Integers, Sequences, FiniteSets, TLC

VARIABLES
    dev,      \* the device's writable registers, by bus address
    sency0,   \* Ldc3114.sency0
    sency1,   \* Ldc3114.sency1
    sency2,   \* Ldc3114.sency2
    sency3,   \* Ldc3114.sency3
    lcdiv,    \* Ldc3114.lcdiv
    call,     \* the most recent driver call: [op, arg, fail]
    ret,      \* what that call returned: [err, val]
    bus,      \* the bus transactions that call issued, in order
    pre,      \* the device registers as they were when that call began
    ncalls,   \* how many calls have been made
    reset_by, \* the call that issued the most recent successful write to Reset
    cfg_touched, \* a write to LcDivider or a sensor-config register succeeded since
              \* the most recent successful write to Reset by normal_mode
    nm_called, \* normal_mode has been called, whatever it returned
    pc,       \* position of the scripted caller (SpecScenario)
    hist      \* the arguments the scripted caller has passed so far

vars == <<dev, sency0, sency1, sency2, sency3, lcdiv, call, ret, bus, pre, ncalls, reset_by, cfg_touched, nm_called, pc, hist>>

-----------------------------------------------------------------------------
(* Bytes and bit operations on them (u8).                                  *)

Byte == 0..255

RECURSIVE AndBits(_, _, _)
AndBits(a, b, n) == IF n = 0 THEN 0 ELSE (a % 2) * (b % 2) + 2 * AndBits(a \div 2, b \div 2, n - 1)

\* a & b
BitAnd(a, b) == AndBits(a, b, 8)

\* !a on a u8
BitNot(a) == 255 - a

\* a | b
BitOr(a, b) == a + b - BitAnd(a, b)

\* (a as u8) << k, k < 8: bits shifted out of the byte are lost
Shl(a, k) == (a * (2 ^ k)) % 256

\* bool as u8
BoolU8(b) == IF b THEN 1 ELSE 0

\* bit i of byte a
Bit(a, i) == (a \div (2 ^ i)) % 2

\* the 2-bit field of byte a at bit offset off
Field2(a, off) == (a \div (2 ^ off)) % 4

-----------------------------------------------------------------------------
(* Register map: src/src/register.rs                                       *)

Register ==
    { "Status", "Out",
      "Data0Lsb", "Data0Msb", "Data1Lsb", "Data1Msb",
      "Data2Lsb", "Data2Msb", "Data3Lsb", "Data3Msb",
      "Reset", "En", "NpScanRate", "Gain0", "LpScanRate", "Gain1", "IntPol",
      "Gain2", "LpBaseInc", "Gain3", "NpBaseInc", "BtPauseMaxWin", "LcDivider",
      "Hyst", "Twist", "CommonDeform", "OpolDpol", "Cntsc",
      "Sensor0Config", "Sensor1Config", "Sensor2Config", "Ftf0", "Sensor3Config",
      "Ftf1_2", "Ftf3",
      "RawData0_3", "RawData0_2", "RawData0_1",
      "RawData1_3", "RawData1_2", "RawData1_1",
      "RawData2_3", "RawData2_2", "RawData2_1",
      "RawData3_3", "RawData3_2", "RawData3_1",
      "ManufacturerIdLsb", "ManufacturerIdMsb", "DeviceIdLsb", "DeviceIdMsb" }

\* Register::addr: the enum discriminant
addr(r) ==
    CASE r = "Status" -> \h00
      [] r = "Out" -> \h01
      [] r = "Data0Lsb" -> \h02
      [] r = "Data0Msb" -> \h03
      [] r = "Data1Lsb" -> \h04
      [] r = "Data1Msb" -> \h05
      [] r = "Data2Lsb" -> \h06
      [] r = "Data2Msb" -> \h07
      [] r = "Data3Lsb" -> \h08
      [] r = "Data3Msb" -> \h09
      [] r = "Reset" -> \h0A
      [] r = "En" -> \h0C
      [] r = "NpScanRate" -> \h0D
      [] r = "Gain0" -> \h0E
      [] r = "LpScanRate" -> \h0F
      [] r = "Gain1" -> \h10
      [] r = "IntPol" -> \h11
      [] r = "Gain2" -> \h12
      [] r = "LpBaseInc" -> \h13
      [] r = "Gain3" -> \h14
      [] r = "NpBaseInc" -> \h15
      [] r = "BtPauseMaxWin" -> \h16
      [] r = "LcDivider" -> \h17
      [] r = "Hyst" -> \h18
      [] r = "Twist" -> \h19
      [] r = "CommonDeform" -> \h1A
      [] r = "OpolDpol" -> \h1C
      [] r = "Cntsc" -> \h1E
      [] r = "Sensor0Config" -> \h20
      [] r = "Sensor1Config" -> \h22
      [] r = "Sensor2Config" -> \h24
      [] r = "Ftf0" -> \h25
      [] r = "Sensor3Config" -> \h26
      [] r = "Ftf1_2" -> \h28
      [] r = "Ftf3" -> \h2B
      [] r = "RawData0_3" -> \h59
      [] r = "RawData0_2" -> \h5A
      [] r = "RawData0_1" -> \h5B
      [] r = "RawData1_3" -> \h5C
      [] r = "RawData1_2" -> \h5D
      [] r = "RawData1_1" -> \h5E
      [] r = "RawData2_3" -> \h5F
      [] r = "RawData2_2" -> \h60
      [] r = "RawData2_1" -> \h61
      [] r = "RawData3_3" -> \h62
      [] r = "RawData3_2" -> \h63
      [] r = "RawData3_1" -> \h64
      [] r = "ManufacturerIdLsb" -> \hFC
      [] r = "ManufacturerIdMsb" -> \hFD
      [] r = "DeviceIdLsb" -> \hFE
      [] r = "DeviceIdMsb" -> \hFF

\* Register::is_read_only
is_read_only(r) ==
    r \in { "Status", "Out",
            "Data0Lsb", "Data0Msb", "Data1Lsb", "Data1Msb",
            "Data2Lsb", "Data2Msb", "Data3Lsb", "Data3Msb",
            "RawData0_1", "RawData0_2", "RawData0_3",
            "RawData1_1", "RawData1_2", "RawData1_3",
            "RawData2_1", "RawData2_2", "RawData2_3",
            "RawData3_1", "RawData3_2", "RawData3_3",
            "DeviceIdLsb", "DeviceIdMsb",
            "ManufacturerIdLsb", "ManufacturerIdMsb" }

\* RESET
FULL_RESET == \h10
CONFIG_MODE == \h01

\* INTPOL
BTSRT_EN == \h10
BTN_ALG_EN == \h08
INTPOL == \h04
DIS_BTN_TO == \h02
DIS_BTB_MO == \h01

\* The channel marker types Channel0..Channel3, by their CH number.
Channel == 0..3

\* impl_channel_registers!: the associated constants of channel ch
EN_BIT(ch) == CASE ch = 0 -> \h01 [] ch = 1 -> \h02 [] ch = 2 -> \h04 [] ch = 3 -> \h08
\* LPEN_BIT with channel 1 given channel 0's bit
LPEN_BIT_repeated(ch) == CASE ch = 0 -> \h10 [] ch = 1 -> \h10 [] ch = 2 -> \h40 [] ch = 3 -> \h80
LPEN_BIT(ch) == CASE ch = 0 -> \h10 [] ch = 1 -> \h20 [] ch = 2 -> \h40 [] ch = 3 -> \h80
BTPAUSE_BIT(ch) == CASE ch = 0 -> \h10 [] ch = 1 -> \h20 [] ch = 2 -> \h40 [] ch = 3 -> \h80
MAXWIN_BIT(ch) == CASE ch = 0 -> \h01 [] ch = 1 -> \h02 [] ch = 2 -> \h04 [] ch = 3 -> \h08
OPOL_BIT(ch) == CASE ch = 0 -> \h10 [] ch = 1 -> \h20 [] ch = 2 -> \h40 [] ch = 3 -> \h80
DPOL_BIT(ch) == CASE ch = 0 -> \h01 [] ch = 1 -> \h02 [] ch = 2 -> \h04 [] ch = 3 -> \h08
ANTICOM_BIT(ch) == CASE ch = 0 -> \h10 [] ch = 1 -> \h20 [] ch = 2 -> \h40 [] ch = 3 -> \h80
ANTIDFORM_BIT(ch) == CASE ch = 0 -> \h01 [] ch = 1 -> \h02 [] ch = 2 -> \h04 [] ch = 3 -> \h08
CNTSC_MASK(ch) == CASE ch = 0 -> \h03 [] ch = 1 -> \h0C [] ch = 2 -> \h30 [] ch = 3 -> \hC0
CNTSC_OFFSET(ch) == CASE ch = 0 -> 0 [] ch = 1 -> 2 [] ch = 2 -> 4 [] ch = 3 -> 6
FTF_MASK(ch) == CASE ch = 0 -> \h06 [] ch = 1 -> \h30 [] ch = 2 -> \hC0 [] ch = 3 -> \h03
FTF_OFFSET(ch) == CASE ch = 0 -> 1 [] ch = 1 -> 4 [] ch = 2 -> 6 [] ch = 3 -> 0

\* ChannelRegisters::raw_data_lsb
raw_data_lsb(ch) == CASE ch = 0 -> "RawData0_3" [] ch = 1 -> "RawData1_3" [] ch = 2 -> "RawData2_3" [] ch = 3 -> "RawData3_3"

\* ChannelRegisters::data_lsb
data_lsb(ch) == CASE ch = 0 -> "Data0Lsb" [] ch = 1 -> "Data1Lsb" [] ch = 2 -> "Data2Lsb" [] ch = 3 -> "Data3Lsb"

\* ChannelRegisters::gain
gain(ch) == CASE ch = 0 -> "Gain0" [] ch = 1 -> "Gain1" [] ch = 2 -> "Gain2" [] ch = 3 -> "Gain3"

\* ChannelRegisters::sensor_config
sensor_config(ch) == CASE ch = 0 -> "Sensor0Config" [] ch = 1 -> "Sensor1Config" [] ch = 2 -> "Sensor2Config" [] ch = 3 -> "Sensor3Config"

\* ChannelRegisters::ftf
ftf(ch) == CASE ch = 0 -> "Ftf0" [] ch = 1 -> "Ftf1_2" [] ch = 2 -> "Ftf1_2" [] ch = 3 -> "Ftf3"

-----------------------------------------------------------------------------
(* The mock transport (the I2c the driver is generic over).                *)
(*                                                                         *)
(* A context c is the machine a method body runs on:                       *)
(*   dev, sency0..sency3, lcdiv   the device registers and the shadows     *)
(*   bus    transactions issued so far in this call                        *)
(*   err    "Ok", or the Error the body has returned                       *)
(*   val    the value of the last expression (a read's result)             *)
(*   buf    the buffer the last write_read filled                          *)
(*   fail   the number of the bus transaction that fails (0: none)         *)
(*   inp    the bytes the device presents on a read of a read-only         *)
(*          (measurement, status, id) register                             *)

\* the addresses of the registers the device stores what is written to
WritableAddr == { addr(r) : r \in { q \in Register : ~is_read_only(q) } }

\* a byte read from device address a; measurement registers present inp
DevByte(c, a, i) == IF a \in DOMAIN c.dev THEN c.dev[a] ELSE c.inp[i]

\* I2c::write(I2C_ADDR, &[reg, value])
i2c_write(c, a, v) ==
    IF Len(c.bus) + 1 = c.fail
    THEN [c EXCEPT !.bus = Append(@, [kind |-> "write", reg |-> a, data |-> <<v>>, ok |-> FALSE]),
                   !.err = "I2c"]
    ELSE [c EXCEPT !.bus = Append(@, [kind |-> "write", reg |-> a, data |-> <<v>>, ok |-> TRUE]),
                   !.dev = IF a \in DOMAIN @ THEN [@ EXCEPT ![a] = v] ELSE @]

\* I2c::write_read(I2C_ADDR, &[reg], &mut buffer[0..n])
i2c_write_read(c, a, n) ==
    IF Len(c.bus) + 1 = c.fail
    THEN [c EXCEPT !.bus = Append(@, [kind |-> "write_read", reg |-> a, data |-> <<>>, ok |-> FALSE]),
                   !.err = "I2c"]
    ELSE LET got == [i \in 1..n |-> DevByte(c, a + i - 1, i)]
         IN [c EXCEPT !.bus = Append(@, [kind |-> "write_read", reg |-> a, data |-> got, ok |-> TRUE]),
                      !.buf = got]

\* `expr.await?` : the rest of a body runs only if the call returned Ok
Q(c, rest) == IF c.err = "Ok" THEN rest ELSE c

-----------------------------------------------------------------------------
(* Primitive register operations: lib.rs 509-557                           *)

\* write_register without the is_read_only test: every write goes to the bus
write_register_unchecked(c, register, value) == i2c_write(c, addr(register), value)

\* write_register
write_register(c, register, value) ==
    IF is_read_only(register)
    THEN [c EXCEPT !.err = "WriteToReadOnly"]
    ELSE i2c_write(c, addr(register), value)

\* read_register
read_register(c, register) ==
    LET c1 == i2c_write_read(c, addr(register), 1)
    IN Q(c1, [c1 EXCEPT !.val = c1.buf[1]])

\* modify_register; f is the closure, a function u8 -> u8
modify_register(c, register, f) ==
    LET c1 == read_register(c, register)
    IN Q(c1, write_register(c1, register, f[c1.val]))

\* set_register_bits
set_register_bits(c, register, bits) ==
    modify_register(c, register, [v \in Byte |-> BitOr(v, bits)])

\* clear_register_bits with the closure |v| v & bits
clear_register_bits_unnegated(c, register, bits) ==
    modify_register(c, register, [v \in Byte |-> BitAnd(v, bits)])

\* clear_register_bits
clear_register_bits(c, register, bits) ==
    modify_register(c, register, [v \in Byte |-> BitAnd(v, BitNot(bits))])

-----------------------------------------------------------------------------
(* The configuration types: lib.rs 617-851                                 *)

ChannelMode == { "Disabled", "NormalMode", "NormalAndLowPowerMode" }

ScanRate == { "Continuous", "Highest", "High", "Medium", "Low", "Lowest" }

\* ScanRate as u8
ScanRate_u8(sr) ==
    CASE sr = "Continuous" -> \h04
      [] sr = "Highest" -> \h08
      [] sr = "High" -> \h00
      [] sr = "Medium" -> \h01
      [] sr = "Low" -> \h02
      [] sr = "Lowest" -> \h03

LowPowerScanRate == { "Highest", "High", "Medium", "Low" }

\* LowPowerScanRate as u8
LowPowerScanRate_u8(sr) ==
    CASE sr = "Highest" -> \h00
      [] sr = "High" -> \h01
      [] sr = "Medium" -> \h02
      [] sr = "Low" -> \h03

InterruptPolarity == { "ActiveLow", "ActiveHigh" }

\* InterruptPolarity as u8
InterruptPolarity_u8(p) == CASE p = "ActiveLow" -> 0 [] p = "ActiveHigh" -> 1

OutputPolarity == { "ActiveLow", "ActiveHigh" }

DataPolarity == { "Inverted", "Normal" }

CounterScale == { "Zero", "One", "Two", "Three" }

\* CounterScale as u8
CounterScale_u8(s) == CASE s = "Zero" -> 0 [] s = "One" -> 1 [] s = "Two" -> 2 [] s = "Three" -> 3

FastTrackingFactor == { "Zero", "One", "Two", "Three" }

\* FastTrackingFactor as u8
FastTrackingFactor_u8(s) == CASE s = "Zero" -> 0 [] s = "One" -> 1 [] s = "Two" -> 2 [] s = "Three" -> 3

RpRange == { "Rp50OhmTo4kOhm", "Rp800OhmTo10kOhm" }

\* RpRange as u8
RpRange_u8(r) == CASE r = "Rp50OhmTo4kOhm" -> \h00 [] r = "Rp800OhmTo10kOhm" -> \h80

FrequencyRange == { "Freq1MHzTo3_3MHz", "Freq3_3MHzTo10MHz", "Freq10MHzTo30MHz" }

\* FrequencyRange as u8
FrequencyRange_u8(f) ==
    CASE f = "Freq1MHzTo3_3MHz" -> \h00
      [] f = "Freq3_3MHzTo10MHz" -> \h20
      [] f = "Freq10MHzTo30MHz" -> \h40

-----------------------------------------------------------------------------
(* Typed operations: lib.rs 85-111, 289-507                                *)

\* full_reset
full_reset(c) == write_register(c, "Reset", FULL_RESET)

\* config_mode writing the full-reset code
config_mode_as_full_reset(c) == write_register(c, "Reset", FULL_RESET)

\* config_mode
config_mode(c) == write_register(c, "Reset", CONFIG_MODE)

\* normal_mode storing each shadow as soon as its register has been read
normal_mode_eager(c) ==
    LET c1 == read_register(c, "LcDivider")
        d1 == Q(c1, [c1 EXCEPT !.lcdiv = BitAnd(c1.val, \h07)])
        c2 == Q(d1, read_register(d1, "Sensor0Config"))
        d2 == Q(c2, [c2 EXCEPT !.sency0 = BitAnd(c2.val, \h1F)])
        c3 == Q(d2, read_register(d2, "Sensor1Config"))
        d3 == Q(c3, [c3 EXCEPT !.sency1 = BitAnd(c3.val, \h1F)])
        c4 == Q(d3, read_register(d3, "Sensor2Config"))
        d4 == Q(c4, [c4 EXCEPT !.sency2 = BitAnd(c4.val, \h1F)])
        c5 == Q(d4, read_register(d4, "Sensor3Config"))
        d5 == Q(c5, [c5 EXCEPT !.sency3 = BitAnd(c5.val, \h1F)])
    IN Q(d5, write_register(d5, "Reset", 0))

\* normal_mode storing the bytes read back as they are
normal_mode_unmasked(c) ==
    LET c1 == read_register(c, "LcDivider")
        c2 == Q(c1, read_register(c1, "Sensor0Config"))
        c3 == Q(c2, read_register(c2, "Sensor1Config"))
        c4 == Q(c3, read_register(c3, "Sensor2Config"))
        c5 == Q(c4, read_register(c4, "Sensor3Config"))
        c6 == [c5 EXCEPT !.lcdiv = c1.val,
                         !.sency0 = c2.val,
                         !.sency1 = c3.val,
                         !.sency2 = c4.val,
                         !.sency3 = c5.val]
    IN Q(c5, write_register(c6, "Reset", 0))

\* normal_mode with the two masks exchanged
normal_mode_masks_swapped(c) ==
    LET c1 == read_register(c, "LcDivider")
        c2 == Q(c1, read_register(c1, "Sensor0Config"))
        c3 == Q(c2, read_register(c2, "Sensor1Config"))
        c4 == Q(c3, read_register(c3, "Sensor2Config"))
        c5 == Q(c4, read_register(c4, "Sensor3Config"))
        c6 == [c5 EXCEPT !.lcdiv = BitAnd(c1.val, \h1F),
                         !.sency0 = BitAnd(c2.val, \h07),
                         !.sency1 = BitAnd(c3.val, \h07),
                         !.sency2 = BitAnd(c4.val, \h07),
                         !.sency3 = BitAnd(c5.val, \h07)]
    IN Q(c5, write_register(c6, "Reset", 0))

\* normal_mode without the readback: only the write to Reset
normal_mode_no_readback(c) == write_register(c, "Reset", 0)

\* normal_mode: five readbacks, then the shadows, then the write to Reset
normal_mode(c) ==
    LET c1 == read_register(c, "LcDivider")
        c2 == Q(c1, read_register(c1, "Sensor0Config"))
        c3 == Q(c2, read_register(c2, "Sensor1Config"))
        c4 == Q(c3, read_register(c3, "Sensor2Config"))
        c5 == Q(c4, read_register(c4, "Sensor3Config"))
        c6 == [c5 EXCEPT !.lcdiv = BitAnd(c1.val, \h07),
                         !.sency0 = BitAnd(c2.val, \h1F),
                         !.sency1 = BitAnd(c3.val, \h1F),
                         !.sency2 = BitAnd(c4.val, \h1F),
                         !.sency3 = BitAnd(c5.val, \h1F)]
    IN Q(c5, write_register(c6, "Reset", 0))

\* set_channel_mode whose NormalMode arm only sets the enable bit
set_channel_mode_no_clear(c, ch, mode) ==
    CASE mode = "Disabled" ->
            clear_register_bits(c, "En", BitOr(EN_BIT(ch), LPEN_BIT(ch)))
      [] mode = "NormalMode" ->
            set_register_bits(c, "En", EN_BIT(ch))
      [] mode = "NormalAndLowPowerMode" ->
            set_register_bits(c, "En", BitOr(EN_BIT(ch), LPEN_BIT(ch)))

\* set_channel_mode
set_channel_mode(c, ch, mode) ==
    CASE mode = "Disabled" ->
            clear_register_bits(c, "En", BitOr(EN_BIT(ch), LPEN_BIT(ch)))
      [] mode = "NormalMode" ->
            modify_register(c, "En", [v \in Byte |-> BitOr(BitAnd(v, BitNot(LPEN_BIT(ch))), EN_BIT(ch))])
      [] mode = "NormalAndLowPowerMode" ->
            set_register_bits(c, "En", BitOr(EN_BIT(ch), LPEN_BIT(ch)))

\* set_channel_gain with the comparison `gain > 0x40`: 64 is let through
set_channel_gain_inclusive(c, ch, g) ==
    IF g > \h40
    THEN [c EXCEPT !.err = "InvalidParameter"]
    ELSE write_register(c, gain(ch), g)

\* set_channel_gain
set_channel_gain(c, ch, g) ==
    IF g >= \h40
    THEN [c EXCEPT !.err = "InvalidParameter"]
    ELSE write_register(c, gain(ch), g)

\* set_normal_scan_rate
set_normal_scan_rate(c, sr) == write_register(c, "NpScanRate", ScanRate_u8(sr))

\* set_low_power_scan_rate
set_low_power_scan_rate(c, sr) == write_register(c, "LpScanRate", LowPowerScanRate_u8(sr))

\* enable_maxout_check
enable_maxout_check(c, enable) ==
    IF enable
    THEN set_register_bits(c, "IntPol", DIS_BTB_MO)
    ELSE clear_register_bits(c, "IntPol", DIS_BTB_MO)

\* enable_button_timeout
enable_button_timeout(c, enable) ==
    IF enable
    THEN set_register_bits(c, "IntPol", DIS_BTN_TO)
    ELSE clear_register_bits(c, "IntPol", DIS_BTN_TO)

\* set_interrupt_polarity
set_interrupt_polarity(c, polarity) ==
    CASE polarity = "ActiveLow" -> clear_register_bits(c, "IntPol", INTPOL)
      [] polarity = "ActiveHigh" -> set_register_bits(c, "IntPol", INTPOL)

\* enable_button_press_detection_algorithm
enable_button_press_detection_algorithm(c, enable) ==
    IF enable
    THEN set_register_bits(c, "IntPol", BTN_ALG_EN)
    ELSE clear_register_bits(c, "IntPol", BTN_ALG_EN)

\* enable_reset_of_button_baseline_tracking
enable_reset_of_button_baseline_tracking(c, enable) ==
    IF enable
    THEN set_register_bits(c, "IntPol", BTSRT_EN)
    ELSE clear_register_bits(c, "IntPol", BTSRT_EN)

\* set_baseline_tracking_increment_np
set_baseline_tracking_increment_np(c, value) ==
    IF value >= \h08
    THEN [c EXCEPT !.err = "InvalidParameter"]
    ELSE write_register(c, "NpBaseInc", value)

\* set_baseline_tracking_increment_lp writing the normal-power register
set_baseline_tracking_increment_lp_to_np(c, value) ==
    IF value >= \h08
    THEN [c EXCEPT !.err = "InvalidParameter"]
    ELSE write_register(c, "NpBaseInc", value)

\* set_baseline_tracking_increment_lp
set_baseline_tracking_increment_lp(c, value) ==
    IF value >= \h08
    THEN [c EXCEPT !.err = "InvalidParameter"]
    ELSE write_register(c, "LpBaseInc", value)

\* set_baseline_tracking_pause
set_baseline_tracking_pause(c, ch, pause) ==
    IF pause
    THEN set_register_bits(c, "BtPauseMaxWin", BTPAUSE_BIT(ch))
    ELSE clear_register_bits(c, "BtPauseMaxWin", BTPAUSE_BIT(ch))

\* include_channel_in_max_win_algorithm
include_channel_in_max_win_algorithm(c, ch, include) ==
    IF include
    THEN set_register_bits(c, "BtPauseMaxWin", MAXWIN_BIT(ch))
    ELSE clear_register_bits(c, "BtPauseMaxWin", MAXWIN_BIT(ch))

\* set_lc_divider that also stores the divider in the shadow
set_lc_divider_shadowing(c, value) ==
    IF value >= \h08
    THEN [c EXCEPT !.err = "InvalidParameter"]
    ELSE write_register([c EXCEPT !.lcdiv = value], "LcDivider", value)

\* set_lc_divider
set_lc_divider(c, value) ==
    IF value >= \h08
    THEN [c EXCEPT !.err = "InvalidParameter"]
    ELSE write_register(c, "LcDivider", value)

\* set_hysteresis
set_hysteresis(c, value) ==
    IF value >= \h10
    THEN [c EXCEPT !.err = "InvalidParameter"]
    ELSE write_register(c, "Hyst", value)

\* set_antitwist
set_antitwist(c, value) ==
    IF value >= \h08
    THEN [c EXCEPT !.err = "InvalidParameter"]
    ELSE write_register(c, "Twist", value)

\* include_channel_in_anticommon_algorithm
include_channel_in_anticommon_algorithm(c, ch, include) ==
    IF include
    THEN set_register_bits(c, "CommonDeform", ANTICOM_BIT(ch))
    ELSE clear_register_bits(c, "CommonDeform", ANTICOM_BIT(ch))

\* include_channel_in_antideform_algorithm
include_channel_in_antideform_algorithm(c, ch, include) ==
    IF include
    THEN set_register_bits(c, "CommonDeform", ANTIDFORM_BIT(ch))
    ELSE clear_register_bits(c, "CommonDeform", ANTIDFORM_BIT(ch))

\* set_output_polarity
set_output_polarity(c, ch, polarity) ==
    CASE polarity = "ActiveLow" -> clear_register_bits(c, "OpolDpol", OPOL_BIT(ch))
      [] polarity = "ActiveHigh" -> set_register_bits(c, "OpolDpol", OPOL_BIT(ch))

\* set_data_polarity
set_data_polarity(c, ch, polarity) ==
    CASE polarity = "Inverted" -> clear_register_bits(c, "OpolDpol", DPOL_BIT(ch))
      [] polarity = "Normal" -> set_register_bits(c, "OpolDpol", DPOL_BIT(ch))

\* set_counter_scale
set_counter_scale(c, ch, scale) ==
    modify_register(c, "Cntsc",
        [v \in Byte |-> BitOr(BitAnd(v, BitNot(CNTSC_MASK(ch))), Shl(CounterScale_u8(scale), CNTSC_OFFSET(ch)))])

\* set_sensor_config
set_sensor_config(c, ch, config) ==
    IF config.cycle_count >= \h20
    THEN [c EXCEPT !.err = "InvalidParameter"]
    ELSE LET v1 == config.cycle_count
             v2 == BitOr(v1, RpRange_u8(config.rp_range))
             v3 == BitOr(v2, FrequencyRange_u8(config.frequency_range))
         IN write_register(c, sensor_config(ch), v3)

\* set_fast_tracking_factor writing the shifted factor without reading the register
set_fast_tracking_factor_overwrite(c, ch, f) ==
    write_register(c, ftf(ch), Shl(FastTrackingFactor_u8(f), FTF_OFFSET(ch)))

\* set_fast_tracking_factor
set_fast_tracking_factor(c, ch, f) ==
    modify_register(c, ftf(ch),
        [v \in Byte |-> BitOr(BitAnd(v, BitNot(FTF_MASK(ch))), Shl(FastTrackingFactor_u8(f), FTF_OFFSET(ch)))])

-----------------------------------------------------------------------------
(* Unsigned integers of 32 and 64 bits: a number is the                    *)
(* sequence of its base-16 digits, least significant first, without        *)
(* leading zeros (0 is <<>>).  u32 is 8 digits wide, u64 is 16.            *)

RECURSIVE Dig(_)
Dig(n) == IF n = 0 THEN <<>> ELSE <<n % 16>> \o Dig(n \div 16)

RECURSIVE Norm(_)
Norm(a) == IF a = <<>> THEN a ELSE IF a[Len(a)] = 0 THEN Norm(SubSeq(a, 1, Len(a) - 1)) ELSE a

RECURSIVE MulC(_, _, _)
MulC(a, s, carry) ==
    IF a = <<>> THEN Dig(carry)
    ELSE LET t == Head(a) * s + carry IN <<t % 16>> \o MulC(Tail(a), s, t \div 16)

\* a * s, exactly, for a scalar 0 < s < 2^26
MulS(a, s) == MulC(a, s, 0)

\* a + s, exactly, for a scalar 0 <= s < 2^26
RECURSIVE AddS(_, _)
AddS(a, s) ==
    IF s = 0 THEN a
    ELSE IF a = <<>> THEN Dig(s)
    ELSE LET t == Head(a) + s IN <<t % 16>> \o AddS(Tail(a), t \div 16)

\* a mod 16^k: the value kept by a k-digit wide integer
Wrap(a, k) == Norm(SubSeq(a, 1, IF Len(a) < k THEN Len(a) ELSE k))

\* quotient and remainder of a by a scalar 0 < d < 2^26 (long division)
RECURSIVE DivRem(_, _)
DivRem(a, d) ==
    IF a = <<>> THEN [q |-> <<>>, r |-> 0]
    ELSE LET hi == DivRem(Tail(a), d)
             cur == hi.r * 16 + Head(a)
         IN [q |-> <<cur \div d>> \o hi.q, r |-> cur % d]

\* a / d, rounded down
DivS(a, d) == Norm(DivRem(a, d).q)

\* a < b
RECURSIVE Less(_, _)
Less(a, b) ==
    IF Len(a) # Len(b) THEN Len(a) < Len(b)
    ELSE IF a = <<>> THEN FALSE
    ELSE IF a[Len(a)] # b[Len(b)] THEN a[Len(a)] < b[Len(b)]
    ELSE Less(SubSeq(a, 1, Len(a) - 1), SubSeq(b, 1, Len(b) - 1))

\* the value of a, when it is below 2^31
RECURSIVE Val(_)
Val(a) == IF a = <<>> THEN 0 ELSE Head(a) + 16 * Val(Tail(a))

U32_DIGITS == 8
U64_DIGITS == 16

-----------------------------------------------------------------------------
(* Readback and conversion: lib.rs 37-79, 113-166                          *)

\* u32::from_le_bytes
u32_from_le_bytes(b) == b[1] + 256 * b[2] + 65536 * b[3] + 16777216 * b[4]

\* u16::from_le_bytes
u16_from_le_bytes(b) == b[1] + 256 * b[2]

\* i16::from_le_bytes
i16_from_le_bytes(b) == LET u == b[1] + 256 * b[2] IN IF u >= 32768 THEN u - 65536 ELSE u

\* the shadow selected by `match T::CH`
sency_of(c, ch) == CASE ch = 0 -> c.sency0 [] ch = 1 -> c.sency1 [] ch = 2 -> c.sency2 [] ch = 3 -> c.sency3

\* the window with 2^LCDIV in place of `2 << lcdiv`
window_u32_pow(sency, lcd) ==
    Wrap(MulS(Wrap(MulS(Dig(128), 1 + sency), U32_DIGITS), 2 ^ lcd), U32_DIGITS)

\* let w = 128 * (1 + sency as u32) * (2 << self.lcdiv as u32), in u32
window_u32(sency, lcd) ==
    Wrap(MulS(Wrap(MulS(Dig(128), 1 + sency), U32_DIGITS), 2 * (2 ^ lcd)), U32_DIGITS)

\* let fsensor = 30 * w as u64 * 44_000_000 / data as u64, in u64
fsensor_u64(w, data) ==
    DivS(Wrap(MulS(Wrap(MulS(w, 30), U64_DIGITS), 44000000), U64_DIGITS), data)

\* read_raw_data; val is the u32 returned, as digits
read_raw_data(c, ch) ==
    LET c1 == i2c_write_read(c, addr(raw_data_lsb(ch)), 3)
        buffer == <<c1.buf[1], c1.buf[2], c1.buf[3], 0>>
        data == u32_from_le_bytes(buffer)
        w == window_u32(sency_of(c, ch), c.lcdiv)
    IN Q(c1, IF data = 0
             THEN [c1 EXCEPT !.val = <<>>]
             ELSE [c1 EXCEPT !.val = Wrap(fsensor_u64(w, data), U32_DIGITS)])

\* read_device_id
read_device_id(c) == read_register(c, "DeviceIdMsb")

\* read_manufacturer_id
read_manufacturer_id(c) ==
    LET c1 == i2c_write_read(c, addr("ManufacturerIdLsb"), 2)
    IN Q(c1, [c1 EXCEPT !.val = u16_from_le_bytes(c1.buf)])

\* read_status, is_ready_to_write, is_chip_ready: one read of Status; val is the byte decoded
read_status(c) == read_register(c, "Status")

\* read_output_logic_states: one read of Out
read_output_logic_states(c) == read_register(c, "Out")

\* read_button_data
read_button_data(c, ch) ==
    LET c1 == i2c_write_read(c, addr(data_lsb(ch)), 2)
    IN Q(c1, [c1 EXCEPT !.val = i16_from_le_bytes(c1.buf)])

-----------------------------------------------------------------------------
(* Composite operations: lib.rs 169-286                                    *)

\* fn en_bits
en_bits(ch, mode) ==
    CASE mode = "Disabled" -> \h00
      [] mode = "NormalMode" -> EN_BIT(ch)
      [] mode = "NormalAndLowPowerMode" -> BitOr(EN_BIT(ch), LPEN_BIT(ch))

\* fn btpause_maxwin_bits
btpause_maxwin_bits(ch, btpause, maxwin) ==
    CASE ~btpause /\ ~maxwin -> \h00
      [] btpause /\ ~maxwin -> BTPAUSE_BIT(ch)
      [] ~btpause /\ maxwin -> MAXWIN_BIT(ch)
      [] btpause /\ maxwin -> BitOr(BTPAUSE_BIT(ch), MAXWIN_BIT(ch))

\* fn common_deform_bits
common_deform_bits(ch, common, deform) ==
    CASE ~common /\ ~deform -> \h00
      [] common /\ ~deform -> ANTICOM_BIT(ch)
      [] ~common /\ deform -> ANTIDFORM_BIT(ch)
      [] common /\ deform -> BitOr(ANTICOM_BIT(ch), ANTIDFORM_BIT(ch))

\* opol_dpol_bits with the data polarity bit set for Inverted
opol_dpol_bits_dpol_inverted(ch, opol, dpol) ==
    CASE opol = "ActiveLow" /\ dpol = "Normal" -> \h00
      [] opol = "ActiveHigh" /\ dpol = "Normal" -> OPOL_BIT(ch)
      [] opol = "ActiveLow" /\ dpol = "Inverted" -> DPOL_BIT(ch)
      [] opol = "ActiveHigh" /\ dpol = "Inverted" -> BitOr(OPOL_BIT(ch), DPOL_BIT(ch))

\* fn opol_dpol_bits
opol_dpol_bits(ch, opol, dpol) ==
    CASE opol = "ActiveLow" /\ dpol = "Inverted" -> \h00
      [] opol = "ActiveHigh" /\ dpol = "Inverted" -> OPOL_BIT(ch)
      [] opol = "ActiveLow" /\ dpol = "Normal" -> DPOL_BIT(ch)
      [] opol = "ActiveHigh" /\ dpol = "Normal" -> BitOr(OPOL_BIT(ch), DPOL_BIT(ch))

\* the byte set_device_configuration writes to En
en_byte(config) ==
    BitOr(BitOr(BitOr(en_bits(0, config.ch0.mode), en_bits(1, config.ch1.mode)),
                en_bits(2, config.ch2.mode)), en_bits(3, config.ch3.mode))

\* the byte set_device_configuration writes to IntPol
intpol_byte(config) ==
    LET i1 == Shl(BoolU8(config.enable_reset_of_button_baseline_tracking), 4)
        i2 == BitOr(i1, Shl(BoolU8(config.enable_button_press_detection_algorithm), 3))
        i3 == BitOr(i2, Shl(InterruptPolarity_u8(config.interrupt_polarity), 2))
        i4 == BitOr(i3, Shl(BoolU8(~config.enable_button_timeout), 1))
    IN BitOr(i4, BoolU8(~config.enable_max_out_check))

\* the byte set_device_configuration writes to BtPauseMaxWin
btpause_maxwin_byte(config) ==
    BitOr(BitOr(BitOr(
        btpause_maxwin_bits(0, config.ch0.baseline_tracking_pause, config.ch0.enable_max_win_button_algorithm),
        btpause_maxwin_bits(1, config.ch1.baseline_tracking_pause, config.ch1.enable_max_win_button_algorithm)),
        btpause_maxwin_bits(2, config.ch2.baseline_tracking_pause, config.ch2.enable_max_win_button_algorithm)),
        btpause_maxwin_bits(3, config.ch3.baseline_tracking_pause, config.ch3.enable_max_win_button_algorithm))

\* the byte set_device_configuration writes to CommonDeform
common_deform_byte(config) ==
    BitOr(BitOr(BitOr(
        common_deform_bits(0, config.ch0.enable_anticommon_algorithm, config.ch0.enable_antideform_algorithm),
        common_deform_bits(1, config.ch1.enable_anticommon_algorithm, config.ch1.enable_antideform_algorithm)),
        common_deform_bits(2, config.ch2.enable_anticommon_algorithm, config.ch2.enable_antideform_algorithm)),
        common_deform_bits(3, config.ch3.enable_anticommon_algorithm, config.ch3.enable_antideform_algorithm))

\* the byte set_device_configuration writes to OpolDpol
opol_dpol_byte(config) ==
    BitOr(BitOr(BitOr(
        opol_dpol_bits(0, config.ch0.output_polarity, config.ch0.data_polarity),
        opol_dpol_bits(1, config.ch1.output_polarity, config.ch1.data_polarity)),
        opol_dpol_bits(2, config.ch2.output_polarity, config.ch2.data_polarity)),
        opol_dpol_bits(3, config.ch3.output_polarity, config.ch3.data_polarity))

\* the byte set_device_configuration writes to Cntsc
cntsc_byte(config) ==
    LET k1 == Shl(CounterScale_u8(config.ch3.counter_scale), 6)
        k2 == BitOr(k1, Shl(CounterScale_u8(config.ch2.counter_scale), 4))
        k3 == BitOr(k2, Shl(CounterScale_u8(config.ch1.counter_scale), 2))
    IN BitOr(k3, CounterScale_u8(config.ch1.counter_scale))

\* the byte set_device_configuration writes to Ftf1_2
ftf1_2_byte(config) ==
    BitOr(Shl(FastTrackingFactor_u8(config.ch2.fast_tracking_factor), 6),
          Shl(FastTrackingFactor_u8(config.ch1.fast_tracking_factor), 4))

\* the k-th statement of set_device_configuration's body, each ending in `.await?`
set_device_configuration_step(c, config, k) ==
    CASE k = 1 -> write_register(c, "En", en_byte(config))
      [] k = 2 -> set_channel_gain(c, 0, config.ch0.gain)
      [] k = 3 -> set_channel_gain(c, 1, config.ch1.gain)
      [] k = 4 -> set_channel_gain(c, 2, config.ch2.gain)
      [] k = 5 -> set_channel_gain(c, 3, config.ch3.gain)
      [] k = 6 -> set_normal_scan_rate(c, config.scan_rate)
      [] k = 7 -> set_low_power_scan_rate(c, config.low_power_scan_rate)
      [] k = 8 -> write_register(c, "IntPol", intpol_byte(config))
      [] k = 9 -> set_baseline_tracking_increment_np(c, config.baseline_tracking_increment_np)
      [] k = 10 -> set_baseline_tracking_increment_lp(c, config.baseline_tracking_increment_lp)
      [] k = 11 -> write_register(c, "BtPauseMaxWin", btpause_maxwin_byte(config))
      [] k = 12 -> set_lc_divider(c, config.lc_divider)
      [] k = 13 -> set_hysteresis(c, config.hysteresis)
      [] k = 14 -> set_antitwist(c, config.antitwist)
      [] k = 15 -> write_register(c, "CommonDeform", common_deform_byte(config))
      [] k = 16 -> write_register(c, "OpolDpol", opol_dpol_byte(config))
      [] k = 17 -> write_register(c, "Cntsc", cntsc_byte(config))
      [] k = 18 -> set_sensor_config(c, 0, config.ch0.sensor_config)
      [] k = 19 -> set_sensor_config(c, 1, config.ch1.sensor_config)
      [] k = 20 -> set_sensor_config(c, 2, config.ch2.sensor_config)
      [] k = 21 -> set_sensor_config(c, 3, config.ch3.sensor_config)
      [] k = 22 -> set_fast_tracking_factor(c, 0, config.ch0.fast_tracking_factor)
      [] k = 23 -> set_fast_tracking_factor(c, 3, config.ch3.fast_tracking_factor)
      [] k = 24 -> write_register(c, "Ftf1_2", ftf1_2_byte(config))

\* set_device_configuration_from with the fast tracking factors written in register
\* order: Ftf0, Ftf1_2, Ftf3
RECURSIVE set_device_configuration_ftf_by_address(_, _, _)
set_device_configuration_ftf_by_address(c, config, k) ==
    IF k > 24 \/ c.err # "Ok" THEN c
    ELSE set_device_configuration_ftf_by_address(
             set_device_configuration_step(c, config, CASE k = 23 -> 24 [] k = 24 -> 23 [] OTHER -> k),
             config, k + 1)

\* statements k..24 of the body, stopping at the first that does not return Ok
RECURSIVE set_device_configuration_from(_, _, _)
set_device_configuration_from(c, config, k) ==
    IF k > 24 \/ c.err # "Ok" THEN c
    ELSE set_device_configuration_from(set_device_configuration_step(c, config, k), config, k + 1)

\* set_device_configuration
set_device_configuration(c, config) == set_device_configuration_from(c, config, 1)

\* the k-th statement of configure_channel's body, each ending in `.await?`
configure_channel_step(c, ch, config, k) ==
    CASE k = 1 -> set_channel_mode(c, ch, config.mode)
      [] k = 2 -> set_channel_gain(c, ch, config.gain)
      [] k = 3 -> set_output_polarity(c, ch, config.output_polarity)
      [] k = 4 -> set_counter_scale(c, ch, config.counter_scale)
      [] k = 5 -> set_fast_tracking_factor(c, ch, config.fast_tracking_factor)
      [] k = 6 -> set_data_polarity(c, ch, config.data_polarity)
      [] k = 7 -> set_sensor_config(c, ch, config.sensor_config)
      [] k = 8 -> include_channel_in_max_win_algorithm(c, ch, config.enable_max_win_button_algorithm)
      [] k = 9 -> include_channel_in_anticommon_algorithm(c, ch, config.enable_anticommon_algorithm)
      [] k = 10 -> include_channel_in_antideform_algorithm(c, ch, config.enable_antideform_algorithm)
      [] k = 11 -> set_baseline_tracking_pause(c, ch, config.baseline_tracking_pause)

\* configure_channel_from with every statement run whatever the one before it
\* returned, the first error returned at the end
RECURSIVE configure_channel_all(_, _, _, _)
configure_channel_all(c, ch, config, k) ==
    IF k > 11 THEN c
    ELSE configure_channel_all(configure_channel_step(c, ch, config, k), ch, config, k + 1)

\* statements k..11 of the body, stopping at the first that does not return Ok
RECURSIVE configure_channel_from(_, _, _, _)
configure_channel_from(c, ch, config, k) ==
    IF k > 11 \/ c.err # "Ok" THEN c
    ELSE configure_channel_from(configure_channel_step(c, ch, config, k), ch, config, k + 1)

\* configure_channel
configure_channel(c, ch, config) == configure_channel_from(c, ch, config, 1)

-----------------------------------------------------------------------------
(* The driver as a state machine: one action per public method.            *)

\* the context a method body starts on: transaction f fails, the device presents inp
Ctx(f, inp) ==
    [dev |-> dev, sency0 |-> sency0, sency1 |-> sency1, sency2 |-> sency2, sency3 |-> sency3,
     lcdiv |-> lcdiv, bus |-> <<>>, err |-> "Ok", val |-> 0, buf |-> <<>>, fail |-> f, inp |-> inp]

\* the log holds a successful write to address a
WroteOk(log, a) == \E i \in 1..Len(log) : log[i].kind = "write" /\ log[i].ok /\ log[i].reg = a

\* the addresses normal_mode reads back
ShadowedAddr == { addr("LcDivider"), addr("Sensor0Config"), addr("Sensor1Config"), addr("Sensor2Config"), addr("Sensor3Config") }

\* the method returned in context c with value v (<<>> for `()`): the new state.
\* A failing transaction number beyond the transactions the body issues is no input.
Return(c, op, arg, v) ==
    /\ c.fail = 0 \/ c.err = "I2c"
    /\ dev' = c.dev
    /\ sency0' = c.sency0
    /\ sency1' = c.sency1
    /\ sency2' = c.sency2
    /\ sency3' = c.sency3
    /\ lcdiv' = c.lcdiv
    /\ call' = [op |-> op, arg |-> arg, fail |-> c.fail, inp |-> c.inp]
    /\ ret' = [err |-> c.err, val |-> IF c.err = "Ok" THEN v ELSE <<>>]
    /\ bus' = c.bus
    /\ pre' = dev
    /\ ncalls' = ncalls + 1
    /\ reset_by' = IF WroteOk(c.bus, addr("Reset")) THEN op ELSE reset_by
    /\ cfg_touched' = IF op = "normal_mode" /\ WroteOk(c.bus, addr("Reset")) THEN FALSE
                      ELSE cfg_touched \/ \E a \in ShadowedAddr : WroteOk(c.bus, a)
    /\ nm_called' = (nm_called \/ op = "normal_mode")

\* a device whose writable registers all hold byte b
Fill(b) == [a \in WritableAddr |-> b]

\* Ldc3114::new on a device whose registers hold d
NewOn(d) ==
    /\ dev = d
    /\ sency0 = 4
    /\ sency1 = 4
    /\ sency2 = 4
    /\ sency3 = 4
    /\ lcdiv = 3
    /\ call = [op |-> "new", arg |-> <<>>, fail |-> 0, inp |-> <<>>]
    /\ ret = [err |-> "Ok", val |-> <<>>]
    /\ bus = <<>>
    /\ pre = d
    /\ ncalls = 0
    /\ reset_by = "none"
    /\ cfg_touched = FALSE
    /\ nm_called = FALSE
    /\ pc = 0
    /\ hist = <<>>

New(b) == NewOn(Fill(b))

WriteRegister(r, v, f) ==
    /\ Return(write_register(Ctx(f, <<>>), r, v), "write_register", <<r, v>>, <<>>)
    /\ UNCHANGED <<pc, hist>>

ReadRegister(r, i, f) ==
    /\ LET c == read_register(Ctx(f, <<i>>), r) IN Return(c, "read_register", <<r>>, <<c.val>>)
    /\ UNCHANGED <<pc, hist>>

SetRegisterBits(r, b, i, f) ==
    /\ Return(set_register_bits(Ctx(f, <<i>>), r, b), "set_register_bits", <<r, b>>, <<>>)
    /\ UNCHANGED <<pc, hist>>

ClearRegisterBits(r, b, i, f) ==
    /\ Return(clear_register_bits(Ctx(f, <<i>>), r, b), "clear_register_bits", <<r, b>>, <<>>)
    /\ UNCHANGED <<pc, hist>>

FullReset(f) ==
    /\ Return(full_reset(Ctx(f, <<>>)), "full_reset", <<>>, <<>>)
    /\ UNCHANGED <<pc, hist>>

ConfigMode(f) ==
    /\ Return(config_mode(Ctx(f, <<>>)), "config_mode", <<>>, <<>>)
    /\ UNCHANGED <<pc, hist>>

NormalMode(f) ==
    /\ Return(normal_mode(Ctx(f, <<>>)), "normal_mode", <<>>, <<>>)
    /\ UNCHANGED <<pc, hist>>

SetChannelMode(ch, m, f) ==
    /\ Return(set_channel_mode(Ctx(f, <<>>), ch, m), "set_channel_mode", <<ch, m>>, <<>>)
    /\ UNCHANGED <<pc, hist>>

SetChannelGain(ch, g, f) ==
    /\ Return(set_channel_gain(Ctx(f, <<>>), ch, g), "set_channel_gain", <<ch, g>>, <<>>)
    /\ UNCHANGED <<pc, hist>>

SetNormalScanRate(sr, f) ==
    /\ Return(set_normal_scan_rate(Ctx(f, <<>>), sr), "set_normal_scan_rate", <<sr>>, <<>>)
    /\ UNCHANGED <<pc, hist>>

SetLowPowerScanRate(sr, f) ==
    /\ Return(set_low_power_scan_rate(Ctx(f, <<>>), sr), "set_low_power_scan_rate", <<sr>>, <<>>)
    /\ UNCHANGED <<pc, hist>>

EnableMaxoutCheck(e, f) ==
    /\ Return(enable_maxout_check(Ctx(f, <<>>), e), "enable_maxout_check", <<e>>, <<>>)
    /\ UNCHANGED <<pc, hist>>

EnableButtonTimeout(e, f) ==
    /\ Return(enable_button_timeout(Ctx(f, <<>>), e), "enable_button_timeout", <<e>>, <<>>)
    /\ UNCHANGED <<pc, hist>>

SetInterruptPolarity(p, f) ==
    /\ Return(set_interrupt_polarity(Ctx(f, <<>>), p), "set_interrupt_polarity", <<p>>, <<>>)
    /\ UNCHANGED <<pc, hist>>

EnableButtonPressDetectionAlgorithm(e, f) ==
    /\ Return(enable_button_press_detection_algorithm(Ctx(f, <<>>), e), "enable_button_press_detection_algorithm", <<e>>, <<>>)
    /\ UNCHANGED <<pc, hist>>

EnableResetOfButtonBaselineTracking(e, f) ==
    /\ Return(enable_reset_of_button_baseline_tracking(Ctx(f, <<>>), e), "enable_reset_of_button_baseline_tracking", <<e>>, <<>>)
    /\ UNCHANGED <<pc, hist>>

SetBaselineTrackingIncrementNp(v, f) ==
    /\ Return(set_baseline_tracking_increment_np(Ctx(f, <<>>), v), "set_baseline_tracking_increment_np", <<v>>, <<>>)
    /\ UNCHANGED <<pc, hist>>

SetBaselineTrackingIncrementLp(v, f) ==
    /\ Return(set_baseline_tracking_increment_lp(Ctx(f, <<>>), v), "set_baseline_tracking_increment_lp", <<v>>, <<>>)
    /\ UNCHANGED <<pc, hist>>

SetBaselineTrackingPause(ch, e, f) ==
    /\ Return(set_baseline_tracking_pause(Ctx(f, <<>>), ch, e), "set_baseline_tracking_pause", <<ch, e>>, <<>>)
    /\ UNCHANGED <<pc, hist>>

IncludeChannelInMaxWinAlgorithm(ch, e, f) ==
    /\ Return(include_channel_in_max_win_algorithm(Ctx(f, <<>>), ch, e), "include_channel_in_max_win_algorithm", <<ch, e>>, <<>>)
    /\ UNCHANGED <<pc, hist>>

SetLcDivider(v, f) ==
    /\ Return(set_lc_divider(Ctx(f, <<>>), v), "set_lc_divider", <<v>>, <<>>)
    /\ UNCHANGED <<pc, hist>>

SetHysteresis(v, f) ==
    /\ Return(set_hysteresis(Ctx(f, <<>>), v), "set_hysteresis", <<v>>, <<>>)
    /\ UNCHANGED <<pc, hist>>

SetAntitwist(v, f) ==
    /\ Return(set_antitwist(Ctx(f, <<>>), v), "set_antitwist", <<v>>, <<>>)
    /\ UNCHANGED <<pc, hist>>

IncludeChannelInAnticommonAlgorithm(ch, e, f) ==
    /\ Return(include_channel_in_anticommon_algorithm(Ctx(f, <<>>), ch, e), "include_channel_in_anticommon_algorithm", <<ch, e>>, <<>>)
    /\ UNCHANGED <<pc, hist>>

IncludeChannelInAntideformAlgorithm(ch, e, f) ==
    /\ Return(include_channel_in_antideform_algorithm(Ctx(f, <<>>), ch, e), "include_channel_in_antideform_algorithm", <<ch, e>>, <<>>)
    /\ UNCHANGED <<pc, hist>>

SetOutputPolarity(ch, p, f) ==
    /\ Return(set_output_polarity(Ctx(f, <<>>), ch, p), "set_output_polarity", <<ch, p>>, <<>>)
    /\ UNCHANGED <<pc, hist>>

SetDataPolarity(ch, p, f) ==
    /\ Return(set_data_polarity(Ctx(f, <<>>), ch, p), "set_data_polarity", <<ch, p>>, <<>>)
    /\ UNCHANGED <<pc, hist>>

SetCounterScale(ch, sc, f) ==
    /\ Return(set_counter_scale(Ctx(f, <<>>), ch, sc), "set_counter_scale", <<ch, sc>>, <<>>)
    /\ UNCHANGED <<pc, hist>>

SetSensorConfig(ch, cfg, f) ==
    /\ Return(set_sensor_config(Ctx(f, <<>>), ch, cfg), "set_sensor_config", <<ch, cfg>>, <<>>)
    /\ UNCHANGED <<pc, hist>>

SetFastTrackingFactor(ch, t, f) ==
    /\ Return(set_fast_tracking_factor(Ctx(f, <<>>), ch, t), "set_fast_tracking_factor", <<ch, t>>, <<>>)
    /\ UNCHANGED <<pc, hist>>

SetDeviceConfiguration(cfg, f) ==
    /\ Return(set_device_configuration(Ctx(f, <<>>), cfg), "set_device_configuration", <<cfg>>, <<>>)
    /\ UNCHANGED <<pc, hist>>

ConfigureChannel(ch, cfg, f) ==
    /\ Return(configure_channel(Ctx(f, <<>>), ch, cfg), "configure_channel", <<ch, cfg>>, <<>>)
    /\ UNCHANGED <<pc, hist>>

ReadRawData(ch, raw, f) ==
    /\ LET c == read_raw_data(Ctx(f, raw), ch) IN Return(c, "read_raw_data", <<ch>>, <<c.val>>)
    /\ UNCHANGED <<pc, hist>>

ReadButtonData(ch, d, f) ==
    /\ LET c == read_button_data(Ctx(f, d), ch) IN Return(c, "read_button_data", <<ch>>, <<c.val>>)
    /\ UNCHANGED <<pc, hist>>

ReadStatus(i, f) ==
    /\ LET c == read_status(Ctx(f, <<i>>)) IN Return(c, "read_status", <<>>, <<c.val>>)
    /\ UNCHANGED <<pc, hist>>

ReadOutputLogicStates(i, f) ==
    /\ LET c == read_output_logic_states(Ctx(f, <<i>>)) IN Return(c, "read_output_logic_states", <<>>, <<c.val>>)
    /\ UNCHANGED <<pc, hist>>

ReadDeviceId(i, f) ==
    /\ LET c == read_device_id(Ctx(f, <<i>>)) IN Return(c, "read_device_id", <<>>, <<c.val>>)
    /\ UNCHANGED <<pc, hist>>

ReadManufacturerId(d, f) ==
    /\ LET c == read_manufacturer_id(Ctx(f, d)) IN Return(c, "read_manufacturer_id", <<>>, <<c.val>>)
    /\ UNCHANGED <<pc, hist>>

-----------------------------------------------------------------------------
(* Inputs.                                                                 *)

\* device fills on which a byte argument ranges over every byte
SampleFill == { \h00, \hA5, \hFF }

\* the bytes a byte argument ranges over on every other device
FewByte == { \h00, \h05, \h5A, \hFF }

\* a byte argument: every byte on the sample devices, FewByte on the others
WideByte == IF dev \in { Fill(b) : b \in SampleFill } THEN Byte ELSE FewByte

\* what the device presents on a read of a status or measurement register
InpByte == { \h00, \h3C, \hFF }

\* SensorConfig values: every range selector, cycle counts around the limit 0x20
SensorConfigs ==
    [rp_range : RpRange, frequency_range : FrequencyRange, cycle_count : { 0, 4, 21, 31, 32, 255 }]

ModeSeq == <<"Disabled", "NormalMode", "NormalAndLowPowerMode">>
GainSeq == <<\h00, \h28, \h15, \h3F>>
ScaleSeq == <<"Zero", "One", "Two", "Three">>
CycleSeq == <<0, 4, 21, 31>>
RpSeq == <<"Rp50OhmTo4kOhm", "Rp800OhmTo10kOhm">>
FreqSeq == <<"Freq1MHzTo3_3MHz", "Freq3_3MHzTo10MHz", "Freq10MHzTo30MHz">>
PolSeq == <<"ActiveLow", "ActiveHigh">>
DataPolSeq == <<"Inverted", "Normal">>

\* the x-th sample ChannelConfig, every integer field in range
ChanCfg(x) ==
    [mode |-> ModeSeq[(x % 3) + 1],
     gain |-> GainSeq[(x % 4) + 1],
     output_polarity |-> PolSeq[(x % 2) + 1],
     data_polarity |-> DataPolSeq[((x \div 2) % 2) + 1],
     counter_scale |-> ScaleSeq[(x % 4) + 1],
     sensor_config |-> [rp_range |-> RpSeq[((x \div 2) % 2) + 1],
                        frequency_range |-> FreqSeq[(x % 3) + 1],
                        cycle_count |-> CycleSeq[((x \div 2) % 4) + 1]],
     fast_tracking_factor |-> ScaleSeq[((x \div 2) % 4) + 1],
     enable_anticommon_algorithm |-> (x % 2 = 1),
     enable_antideform_algorithm |-> ((x \div 2) % 2 = 1),
     enable_max_win_button_algorithm |-> ((x \div 4) % 2 = 1),
     baseline_tracking_pause |-> (x % 3 = 1)]

\* how many sample ChannelConfigs each channel ranges over
NChanCfg == 5

ChannelConfigs == { ChanCfg(x) : x \in 0..(NChanCfg - 1) }

ScanSeq == <<"Continuous", "Highest", "High", "Medium", "Low", "Lowest">>
LpScanSeq == <<"Highest", "High", "Medium", "Low">>

\* the y-th sample of the device-wide settings, every integer field in range
DevCfg(c0, c1, c2, c3, y) ==
    [ch0 |-> c0, ch1 |-> c1, ch2 |-> c2, ch3 |-> c3,
     scan_rate |-> ScanSeq[(y % 6) + 1],
     low_power_scan_rate |-> LpScanSeq[(y % 4) + 1],
     enable_max_out_check |-> (y % 2 = 1),
     enable_button_timeout |-> ((y \div 2) % 2 = 1),
     interrupt_polarity |-> PolSeq[(y % 2) + 1],
     enable_button_press_detection_algorithm |-> ((y \div 2) % 2 = 0),
     enable_reset_of_button_baseline_tracking |-> (y % 3 = 0),
     baseline_tracking_increment_np |-> y % 8,
     baseline_tracking_increment_lp |-> 7 - (y % 8),
     lc_divider |-> (3 * y) % 8,
     hysteresis |-> (5 * y) % 16,
     antitwist |-> (y + 5) % 8]

\* how many samples of the device-wide settings
NDevCfg == 6

DeviceConfigs ==
    { DevCfg(c0, c1, c2, c3, y) : c0 \in ChannelConfigs, c1 \in ChannelConfigs,
                                  c2 \in ChannelConfigs, c3 \in ChannelConfigs, y \in 0..(NDevCfg - 1) }

-----------------------------------------------------------------------------
(* SpecCall: one call of one method on a freshly constructed driver, the   *)
(* device's registers holding any byte.                                    *)

\* device configurations for the failure cases: one in range, and one for each
\* validated field with that field alone out of range
FaultyDeviceConfigs ==
    LET ok == DevCfg(ChanCfg(1), ChanCfg(2), ChanCfg(3), ChanCfg(4), 5)
        bad_gain == [ChanCfg(2) EXCEPT !.gain = \h40]
        bad_cycle == [ChanCfg(3) EXCEPT !.sensor_config.cycle_count = \h20]
    IN { ok,
         [ok EXCEPT !.ch0 = bad_gain], [ok EXCEPT !.ch1 = bad_gain],
         [ok EXCEPT !.ch2 = bad_gain], [ok EXCEPT !.ch3 = bad_gain],
         [ok EXCEPT !.baseline_tracking_increment_np = \h08],
         [ok EXCEPT !.baseline_tracking_increment_lp = \hFF],
         [ok EXCEPT !.lc_divider = \h08],
         [ok EXCEPT !.hysteresis = \h10],
         [ok EXCEPT !.antitwist = \h09],
         [ok EXCEPT !.ch0 = bad_cycle], [ok EXCEPT !.ch1 = bad_cycle],
         [ok EXCEPT !.ch2 = bad_cycle], [ok EXCEPT !.ch3 = bad_cycle],
         [ok EXCEPT !.ch3 = bad_gain, !.hysteresis = \h10] }

\* channel configurations for the failure cases
FaultyChannelConfigs ==
    { ChanCfg(0), ChanCfg(3), ChanCfg(4),
      [ChanCfg(2) EXCEPT !.gain = \h40],
      [ChanCfg(3) EXCEPT !.sensor_config.cycle_count = \h20],
      [ChanCfg(1) EXCEPT !.gain = \hFF, !.sensor_config.cycle_count = \hFF] }

InitCall == \E b \in Byte : New(b)

OnSample == dev \in { Fill(b) : b \in SampleFill }

NextCall ==
    \/ ncalls = 0 /\ \E r \in Register, v \in WideByte, f \in 0..1 : WriteRegister(r, v, f)
    \/ ncalls = 0 /\ \E ch \in Channel, g \in WideByte, f \in 0..1 : SetChannelGain(ch, g, f)
    \/ ncalls = 0 /\ \E v \in WideByte, f \in 0..1 : SetBaselineTrackingIncrementNp(v, f)
    \/ ncalls = 0 /\ \E v \in WideByte, f \in 0..1 : SetBaselineTrackingIncrementLp(v, f)
    \/ ncalls = 0 /\ \E v \in WideByte, f \in 0..1 : SetLcDivider(v, f)
    \/ ncalls = 0 /\ \E v \in WideByte, f \in 0..1 : SetHysteresis(v, f)
    \/ ncalls = 0 /\ \E v \in WideByte, f \in 0..1 : SetAntitwist(v, f)
    \/ ncalls = 0 /\ \E ch \in Channel, cfg \in SensorConfigs, f \in 0..1 : SetSensorConfig(ch, cfg, f)
    \/ ncalls = 0 /\ \E e \in BOOLEAN, f \in 0..2 : EnableMaxoutCheck(e, f)
    \/ ncalls = 0 /\ \E e \in BOOLEAN, f \in 0..2 : EnableButtonTimeout(e, f)
    \/ ncalls = 0 /\ \E ch \in Channel, sc \in CounterScale, f \in 0..2 : SetCounterScale(ch, sc, f)
    \/ ncalls = 0 /\ \E cfg \in DeviceConfigs : OnSample /\ SetDeviceConfiguration(cfg, 0)
    \/ ncalls = 0 /\ OnSample /\ \E cfg \in FaultyDeviceConfigs, f \in 1..26 : SetDeviceConfiguration(cfg, f)
    \/ ncalls = 0 /\ OnSample /\ \E cfg \in FaultyDeviceConfigs \ DeviceConfigs : SetDeviceConfiguration(cfg, 0)
    \/ ncalls = 0 /\ OnSample /\ \E ch \in Channel, cfg \in FaultyChannelConfigs, f \in 0..20 : ConfigureChannel(ch, cfg, f)
    \/ ncalls = 0 /\ \E r \in Register, b \in { \h11, \hFF }, f \in 0..2 : SetRegisterBits(r, b, \h3C, f)
    \/ ncalls = 0 /\ \E r \in Register, b \in { \h11, \hFF }, f \in 0..2 : ClearRegisterBits(r, b, \h3C, f)
    \/ ncalls = 0 /\ \E ch \in Channel, m \in ChannelMode, f \in 0..2 : SetChannelMode(ch, m, f)
    \/ ncalls = 0 /\ \E p \in InterruptPolarity, f \in 0..2 : SetInterruptPolarity(p, f)
    \/ ncalls = 0 /\ \E e \in BOOLEAN, f \in 0..2 : EnableButtonPressDetectionAlgorithm(e, f)
    \/ ncalls = 0 /\ \E e \in BOOLEAN, f \in 0..2 : EnableResetOfButtonBaselineTracking(e, f)
    \/ ncalls = 0 /\ \E ch \in Channel, e \in BOOLEAN, f \in 0..2 : SetBaselineTrackingPause(ch, e, f)
    \/ ncalls = 0 /\ \E ch \in Channel, e \in BOOLEAN, f \in 0..2 : IncludeChannelInMaxWinAlgorithm(ch, e, f)
    \/ ncalls = 0 /\ \E ch \in Channel, e \in BOOLEAN, f \in 0..2 : IncludeChannelInAnticommonAlgorithm(ch, e, f)
    \/ ncalls = 0 /\ \E ch \in Channel, e \in BOOLEAN, f \in 0..2 : IncludeChannelInAntideformAlgorithm(ch, e, f)
    \/ ncalls = 0 /\ \E ch \in Channel, p \in OutputPolarity, f \in 0..2 : SetOutputPolarity(ch, p, f)
    \/ ncalls = 0 /\ \E ch \in Channel, p \in DataPolarity, f \in 0..2 : SetDataPolarity(ch, p, f)
    \/ ncalls = 0 /\ \E ch \in Channel, t \in FastTrackingFactor, f \in 0..2 : SetFastTrackingFactor(ch, t, f)
    \/ ncalls = 0 /\ \E f \in 0..1 : FullReset(f)
    \/ ncalls = 0 /\ \E f \in 0..1 : ConfigMode(f)
    \/ ncalls = 0 /\ \E f \in 0..6 : NormalMode(f)

SpecCall == InitCall /\ [][NextCall]_vars

-----------------------------------------------------------------------------
(* Claims on a single call (SpecCall).                                     *)

\* the registers C1 lists as read-only
ClaimedReadOnly ==
    { "Status", "Out",
      "Data0Lsb", "Data0Msb", "Data1Lsb", "Data1Msb", "Data2Lsb", "Data2Msb", "Data3Lsb", "Data3Msb",
      "RawData0_1", "RawData0_2", "RawData0_3", "RawData1_1", "RawData1_2", "RawData1_3",
      "RawData2_1", "RawData2_2", "RawData2_3", "RawData3_1", "RawData3_2", "RawData3_3",
      "ManufacturerIdLsb", "ManufacturerIdMsb", "DeviceIdLsb", "DeviceIdMsb" }

\* is_read_only classifies exactly the listed registers as read-only
ReadOnlyAsListed == \A r \in Register : is_read_only(r) <=> r \in ClaimedReadOnly

\* C1: write_register on any of the read-only registers, with any byte, returns
\* WriteToReadOnly having issued no bus transaction; the registers classified
\* read-only are exactly the listed ones.
C1_WriteToReadOnly ==
    /\ ReadOnlyAsListed
    /\ (call.op = "write_register" /\ call.arg[1] \in ClaimedReadOnly)
          => (ret.err = "WriteToReadOnly" /\ bus = <<>> /\ dev = pre)

\* C1 witness: a write of 0xFF to Status was refused
C1_Witness ==
    call.op = "write_register" /\ call.arg = <<"Status", \hFF>> /\ ret.err = "WriteToReadOnly"

\* the one successful write transaction of value v to address a
OneWrite(a, v) == <<[kind |-> "write", reg |-> a, data |-> <<v>>, ok |-> TRUE]>>

\* the gain register addresses of channels 0..3 (Gain0..Gain3)
GainAddr == <<\h0E, \h10, \h12, \h14>>

\* C2: on a working transport set_channel_gain(ch, g) with g < 64 returns Ok after
\* exactly one write of g to the channel's gain register; with g >= 64 it returns
\* InvalidParameter and issues no bus transaction.
C2_ChannelGain ==
    (call.op = "set_channel_gain" /\ call.fail = 0) =>
        LET ch == call.arg[1]
            g == call.arg[2]
        IN IF g < 64
           THEN ret.err = "Ok" /\ bus = OneWrite(GainAddr[ch + 1], g) /\ dev[GainAddr[ch + 1]] = g
           ELSE ret.err = "InvalidParameter" /\ bus = <<>> /\ dev = pre

\* C2 witness: gain 63 was written for channel 2
C2_Witness ==
    call.op = "set_channel_gain" /\ call.arg = <<2, 63>> /\ ret.err = "Ok" /\ dev[\h12] = 63 /\ pre[\h12] # 63

\* the range-checked setters of C3: the first value refused, and the register written
C3_Limit(op) ==
    CASE op = "set_sensor_config" -> 32
      [] op = "set_baseline_tracking_increment_np" -> 8
      [] op = "set_baseline_tracking_increment_lp" -> 8
      [] op = "set_lc_divider" -> 8
      [] op = "set_hysteresis" -> 16
      [] op = "set_antitwist" -> 8

C3_OwnAddr(op, arg) ==
    CASE op = "set_sensor_config" -> <<\h20, \h22, \h24, \h26>>[arg[1] + 1]
      [] op = "set_baseline_tracking_increment_np" -> \h15
      [] op = "set_baseline_tracking_increment_lp" -> \h13
      [] op = "set_lc_divider" -> \h17
      [] op = "set_hysteresis" -> \h18
      [] op = "set_antitwist" -> \h19

C3_Ops ==
    { "set_sensor_config", "set_baseline_tracking_increment_np", "set_baseline_tracking_increment_lp",
      "set_lc_divider", "set_hysteresis", "set_antitwist" }

\* C3: each range-checked setter returns InvalidParameter on an out-of-range argument
\* with no bus transaction and no register changed; on an in-range argument it
\* issues exactly one transaction, a write to its own register.
C3_RangeChecked ==
    call.op \in C3_Ops =>
        LET x == IF call.op = "set_sensor_config" THEN call.arg[2].cycle_count ELSE call.arg[1]
        IN IF x >= C3_Limit(call.op)
           THEN ret.err = "InvalidParameter" /\ bus = <<>> /\ dev = pre
           ELSE /\ Len(bus) = 1
                /\ bus[1].kind = "write"
                /\ bus[1].reg = C3_OwnAddr(call.op, call.arg)
                /\ \A a \in DOMAIN dev : a # C3_OwnAddr(call.op, call.arg) => dev[a] = pre[a]

\* C3 witness: hysteresis 16 was refused
C3_Witness ==
    call.op = "set_hysteresis" /\ call.arg = <<16>> /\ ret.err = "InvalidParameter" /\ bus = <<>>

\* the value of register r in register file d
Reg(d, r) == d[addr(r)]

\* the configs of the four channels of a DeviceConfig
ChOf(config, k) == CASE k = 0 -> config.ch0 [] k = 1 -> config.ch1 [] k = 2 -> config.ch2 [] k = 3 -> config.ch3

\* C4's decoding of a channel's fields from the register file d
DecodeChannel(d, k) ==
    [mode |-> CASE Bit(Reg(d, "En"), k) = 0 /\ Bit(Reg(d, "En"), 4 + k) = 0 -> "Disabled"
                [] Bit(Reg(d, "En"), k) = 1 /\ Bit(Reg(d, "En"), 4 + k) = 0 -> "NormalMode"
                [] Bit(Reg(d, "En"), k) = 1 /\ Bit(Reg(d, "En"), 4 + k) = 1 -> "NormalAndLowPowerMode"
                [] OTHER -> "undecodable",
     gain |-> Reg(d, gain(k)),
     output_polarity |-> IF Bit(Reg(d, "OpolDpol"), 4 + k) = 1 THEN "ActiveHigh" ELSE "ActiveLow",
     data_polarity |-> IF Bit(Reg(d, "OpolDpol"), k) = 1 THEN "Normal" ELSE "Inverted",
     counter_scale |-> ScaleSeq[Field2(Reg(d, "Cntsc"), 2 * k) + 1],
     sensor_config |-> [rp_range |-> IF Bit(Reg(d, sensor_config(k)), 7) = 1 THEN "Rp800OhmTo10kOhm" ELSE "Rp50OhmTo4kOhm",
                        frequency_range |-> CASE Field2(Reg(d, sensor_config(k)), 5) = 0 -> "Freq1MHzTo3_3MHz"
                                              [] Field2(Reg(d, sensor_config(k)), 5) = 1 -> "Freq3_3MHzTo10MHz"
                                              [] Field2(Reg(d, sensor_config(k)), 5) = 2 -> "Freq10MHzTo30MHz"
                                              [] OTHER -> "undecodable",
                        cycle_count |-> Reg(d, sensor_config(k)) % 32],
     fast_tracking_factor |-> ScaleSeq[Field2(Reg(d, ftf(k)), <<1, 4, 6, 0>>[k + 1]) + 1],
     enable_anticommon_algorithm |-> (Bit(Reg(d, "CommonDeform"), 4 + k) = 1),
     enable_antideform_algorithm |-> (Bit(Reg(d, "CommonDeform"), k) = 1),
     enable_max_win_button_algorithm |-> (Bit(Reg(d, "BtPauseMaxWin"), k) = 1),
     baseline_tracking_pause |-> (Bit(Reg(d, "BtPauseMaxWin"), 4 + k) = 1)]

\* C4's decoding of a DeviceConfig from the register file d
DecodeDevice(d) ==
    [ch0 |-> DecodeChannel(d, 0), ch1 |-> DecodeChannel(d, 1),
     ch2 |-> DecodeChannel(d, 2), ch3 |-> DecodeChannel(d, 3),
     scan_rate |-> CASE Reg(d, "NpScanRate") = 4 -> "Continuous"
                     [] Reg(d, "NpScanRate") = 8 -> "Highest"
                     [] Reg(d, "NpScanRate") = 0 -> "High"
                     [] Reg(d, "NpScanRate") = 1 -> "Medium"
                     [] Reg(d, "NpScanRate") = 2 -> "Low"
                     [] Reg(d, "NpScanRate") = 3 -> "Lowest"
                     [] OTHER -> "undecodable",
     low_power_scan_rate |-> CASE Reg(d, "LpScanRate") = 0 -> "Highest"
                               [] Reg(d, "LpScanRate") = 1 -> "High"
                               [] Reg(d, "LpScanRate") = 2 -> "Medium"
                               [] Reg(d, "LpScanRate") = 3 -> "Low"
                               [] OTHER -> "undecodable",
     enable_max_out_check |-> (Bit(Reg(d, "IntPol"), 0) = 0),
     enable_button_timeout |-> (Bit(Reg(d, "IntPol"), 1) = 0),
     interrupt_polarity |-> IF Bit(Reg(d, "IntPol"), 2) = 1 THEN "ActiveHigh" ELSE "ActiveLow",
     enable_button_press_detection_algorithm |-> (Bit(Reg(d, "IntPol"), 3) = 1),
     enable_reset_of_button_baseline_tracking |-> (Bit(Reg(d, "IntPol"), 4) = 1),
     baseline_tracking_increment_np |-> Reg(d, "NpBaseInc"),
     baseline_tracking_increment_lp |-> Reg(d, "LpBaseInc"),
     lc_divider |-> Reg(d, "LcDivider"),
     hysteresis |-> Reg(d, "Hyst"),
     antitwist |-> Reg(d, "Twist")]

\* C4: after set_device_configuration returns Ok, decoding the registers
\* reproduces every field of the config that was passed.
C4_RoundTrip ==
    (call.op = "set_device_configuration" /\ ret.err = "Ok") => DecodeDevice(dev) = call.arg[1]

\* C4 without the counter scale of channel 0: every other field is reproduced
C4_RoundTripButCh0Scale ==
    (call.op = "set_device_configuration" /\ ret.err = "Ok") =>
        [DecodeDevice(dev) EXCEPT !.ch0.counter_scale = "any"] = [call.arg[1] EXCEPT !.ch0.counter_scale = "any"]

\* C5: the Cntsc byte set_device_configuration writes holds channel k's counter_scale
\* at bit offset 2k, for channel 0 the field set_counter_scale(Channel0, _) writes.
C5_CntscFields ==
    /\ (call.op = "set_device_configuration" /\ ret.err = "Ok") =>
          \A k \in Channel : Field2(Reg(dev, "Cntsc"), 2 * k) = CounterScale_u8(ChOf(call.arg[1], k).counter_scale)
    /\ (call.op = "set_counter_scale" /\ ret.err = "Ok") =>
          Field2(Reg(dev, "Cntsc"), 2 * call.arg[1]) = CounterScale_u8(call.arg[2])

\* C6: every writer stores the button-timeout and max-out-check flags inverted:
\* IntPol bit 1 is NOT enable after enable_button_timeout, bit 0 is NOT enable
\* after enable_maxout_check, as in the byte set_device_configuration writes.
C6_InvertedFlags ==
    /\ (call.op = "enable_button_timeout" /\ ret.err = "Ok") =>
          Bit(Reg(dev, "IntPol"), 1) = BoolU8(~call.arg[1])
    /\ (call.op = "enable_maxout_check" /\ ret.err = "Ok") =>
          Bit(Reg(dev, "IntPol"), 0) = BoolU8(~call.arg[1])
    /\ (call.op = "set_device_configuration" /\ ret.err = "Ok") =>
          /\ Bit(Reg(dev, "IntPol"), 1) = BoolU8(~call.arg[1].enable_button_timeout)
          /\ Bit(Reg(dev, "IntPol"), 0) = BoolU8(~call.arg[1].enable_max_out_check)

\* the part of C6 about set_device_configuration alone
C6_BulkInverted ==
    (call.op = "set_device_configuration" /\ ret.err = "Ok") =>
        /\ Bit(Reg(dev, "IntPol"), 1) = BoolU8(~call.arg[1].enable_button_timeout)
        /\ Bit(Reg(dev, "IntPol"), 0) = BoolU8(~call.arg[1].enable_max_out_check)

-----------------------------------------------------------------------------
(* SpecRaw: a fresh driver on a device whose LcDivider and sensor-config   *)
(* registers hold any divider and cycle count; normal_mode may be called   *)
(* once, then read_raw_data is.                                            *)

\* LcDivider holds l, the sensor-config registers cycle counts s, s+9, s+18, s+27
\* (mod 32) under different range bits
RawDevice(l, s) ==
    [a \in WritableAddr |->
        CASE a = addr("LcDivider") -> l
          [] a = addr("Sensor0Config") -> s
          [] a = addr("Sensor1Config") -> ((s + 9) % 32) + \h80
          [] a = addr("Sensor2Config") -> ((s + 18) % 32) + \h40
          [] a = addr("Sensor3Config") -> ((s + 27) % 32) + \hE0
          [] OTHER -> 0]

\* the three bytes the raw-data registers present, least significant first
RawSamples ==
    { <<0, 0, 0>>, <<1, 0, 0>>, <<\hE8, \h03, 0>>, <<0, 0, 1>>, <<\hFF, \hFF, \h7F>>, <<\hFF, \hFF, \hFF>> }

InitRaw == \E l \in (0..7) \cup { \hFD }, s \in 0..31 : NewOn(RawDevice(l, s))

NextRaw ==
    \/ call.op = "new" /\ \E f \in { 0, 2, 6 } : NormalMode(f)
    \/ call.op # "read_raw_data" /\ \E ch \in Channel, raw \in RawSamples, f \in 0..1 : ReadRawData(ch, raw, f)

SpecRaw == InitRaw /\ [][NextRaw]_vars

\* the driver's cycle-count shadow of channel ch
Shadow(ch) == <<sency0, sency1, sency2, sency3>>[ch + 1]

\* the 24-bit reading presented as three bytes, zero-extended
RawValue(b) == b[1] + 256 * b[2] + 65536 * b[3]

\* 128 * (1 + cc) * (2 << d), exactly
ExactWindow(cc, d) == MulS(MulS(Dig(128), 1 + cc), 2 * (2 ^ d))

\* 128 * (1 + cc) * 2^d, exactly
DocWindow(cc, d) == MulS(MulS(Dig(128), 1 + cc), 2 ^ d)

\* 30 * w * 44_000_000, exactly
ExactProduct(w) == MulS(MulS(w, 30), 44000000)

\* q = floor(p / r)
IsFloorQuotient(q, p, r) == ~Less(p, MulS(q, r)) /\ Less(p, AddS(MulS(q, r), r))

C8_DocFormula ==
    (call.op = "read_raw_data" /\ ret.err = "Ok" /\ RawValue(call.inp) # 0) =>
        ret.val = << Wrap(DivS(ExactProduct(DocWindow(Shadow(call.arg[1]), lcdiv)), RawValue(call.inp)), U32_DIGITS) >>

-----------------------------------------------------------------------------
(* SpecScenario: the mode-transition scenario. A caller configures the     *)
(* four channels in turn, sets the divider, enters normal mode and reads a *)
(* channel; it gives up at the first call that does not return Ok.         *)
(* pc counts the calls that returned Ok (-1 once the caller has given up), *)
(* hist holds the arguments passed: cfg_0..cfg_3, then d.                  *)

\* the sensor configs the caller passes: cycle counts at the ends of the range,
\* the construction-time default 4, and 32 (refused)
ScenarioConfigs ==
    { [rp_range |-> "Rp800OhmTo10kOhm", frequency_range |-> "Freq10MHzTo30MHz", cycle_count |-> 0],
      [rp_range |-> "Rp50OhmTo4kOhm", frequency_range |-> "Freq3_3MHzTo10MHz", cycle_count |-> 4],
      [rp_range |-> "Rp800OhmTo10kOhm", frequency_range |-> "Freq1MHzTo3_3MHz", cycle_count |-> 21],
      [rp_range |-> "Rp50OhmTo4kOhm", frequency_range |-> "Freq10MHzTo30MHz", cycle_count |-> 31],
      [rp_range |-> "Rp50OhmTo4kOhm", frequency_range |-> "Freq1MHzTo3_3MHz", cycle_count |-> 32] }

\* the dividers the caller passes; 8 is refused
ScenarioDividers == { 0, 3, 7, 8 }

ScenarioSetSensorConfig(cfg, f) ==
    /\ pc \in 0..3
    /\ LET c == set_sensor_config(Ctx(f, <<>>), pc, cfg)
       IN /\ Return(c, "set_sensor_config", <<pc, cfg>>, <<>>)
          /\ pc' = IF c.err = "Ok" THEN pc + 1 ELSE -1
    /\ hist' = Append(hist, cfg)

ScenarioSetLcDivider(d, f) ==
    /\ pc = 4
    /\ LET c == set_lc_divider(Ctx(f, <<>>), d)
       IN /\ Return(c, "set_lc_divider", <<d>>, <<>>)
          /\ pc' = IF c.err = "Ok" THEN pc + 1 ELSE -1
    /\ hist' = Append(hist, d)

ScenarioNormalMode(f) ==
    /\ pc = 5
    /\ LET c == normal_mode(Ctx(f, <<>>))
       IN /\ Return(c, "normal_mode", <<>>, <<>>)
          /\ pc' = IF c.err = "Ok" THEN pc + 1 ELSE -1
    /\ UNCHANGED hist

ScenarioReadRawData(ch, raw, f) ==
    /\ pc = 6
    /\ LET c == read_raw_data(Ctx(f, raw), ch)
       IN /\ Return(c, "read_raw_data", <<ch>>, <<c.val>>)
          /\ pc' = IF c.err = "Ok" THEN pc + 1 ELSE -1
    /\ UNCHANGED hist

InitScenario == \E b \in { \h00, \hFF } : New(b)

NextScenario ==
    \/ \E cfg \in ScenarioConfigs, f \in 0..1 : ScenarioSetSensorConfig(cfg, f)
    \/ \E d \in ScenarioDividers, f \in 0..1 : ScenarioSetLcDivider(d, f)
    \/ \E f \in 0..6 : ScenarioNormalMode(f)
    \/ \E ch \in Channel, raw \in { <<0, 0, 0>>, <<1, 0, 0>>, <<\hE8, \h03, 0>>, <<\hFF, \hFF, \hFF>> }, f \in 0..1 :
          ScenarioReadRawData(ch, raw, f)

SpecScenario == InitScenario /\ [][NextScenario]_vars

\* read_raw_data's result for the reading r under cycle count cc and divider d
Converted(cc, d, r) == Wrap(DivS(ExactProduct(ExactWindow(cc, d)), r), U32_DIGITS)

\* C9: once set_sensor_config(Channel k, cfg_k) for the four channels,
\* set_lc_divider(d) and then normal_mode() have returned Ok, the cycle-count
\* shadow of channel k is cfg_k.cycle_count and the divider shadow is d, and a
\* following read_raw_data(Channel k) converts with them, not with the
\* construction-time defaults 4 and 3.
C9_ModeTransition ==
    /\ pc >= 6 =>
          /\ \A k \in Channel : Shadow(k) = hist[k + 1].cycle_count
          /\ lcdiv = hist[5]
    /\ (pc = 7 /\ RawValue(call.inp) # 0) =>
          LET k == call.arg[1]
              r == RawValue(call.inp)
          IN /\ ret.val = << Converted(hist[k + 1].cycle_count, hist[5], r) >>
             /\ <<hist[k + 1].cycle_count, hist[5]>> # <<4, 3>> => ret.val # << Converted(4, 3, r) >>

\* C9 witness: cycle count 21 on channel 1 and divider 7 were written, normal_mode
\* returned Ok, and channel 1 was read
C9_Witness ==
    /\ pc = 7 /\ call.op = "read_raw_data" /\ call.arg = <<1>> /\ call.inp = <<\hE8, \h03, 0>>
    /\ hist[2].cycle_count = 21 /\ hist[5] = 7
    /\ sency1 = 21 /\ lcdiv = 7
    /\ ret.err = "Ok"

-----------------------------------------------------------------------------
(* Spec: any sequence of at most MaxOps calls of the driver's methods on a *)
(* device whose registers change only through the driver.                  *)

\* the longest sequence of calls
MaxOps == 2

\* the caller may make another call
Open == ncalls < MaxOps

\* a sensor config in range and one out of range
SomeSensorConfigs ==
    { [rp_range |-> "Rp800OhmTo10kOhm", frequency_range |-> "Freq3_3MHzTo10MHz", cycle_count |-> 21],
      [rp_range |-> "Rp50OhmTo4kOhm", frequency_range |-> "Freq1MHzTo3_3MHz", cycle_count |-> 32] }

\* a device configuration in range and one whose channel 2 has a gain out of range
SomeDeviceConfigs ==
    { DevCfg(ChanCfg(1), ChanCfg(2), ChanCfg(3), ChanCfg(4), 5),
      DevCfg(ChanCfg(4), ChanCfg(3), [ChanCfg(2) EXCEPT !.gain = \h40], ChanCfg(1), 2) }

Init == \E b \in { \h00, \hFF } : New(b)

Next ==
    \/ Open /\ \E r \in { "Reset", "LcDivider", "Sensor2Config", "Out" }, v \in { \h00, \h2D }, f \in 0..1 : WriteRegister(r, v, f)
    \/ Open /\ \E r \in { "LcDivider", "Status" }, f \in 0..1 : ReadRegister(r, \h3C, f)
    \/ Open /\ \E r \in { "Sensor0Config", "Status" }, f \in 0..2 : SetRegisterBits(r, \h11, \h00, f)
    \/ Open /\ \E r \in { "LcDivider", "Out" }, f \in 0..2 : ClearRegisterBits(r, \h06, \hFF, f)
    \/ Open /\ \E f \in 0..1 : FullReset(f)
    \/ Open /\ \E f \in 0..1 : ConfigMode(f)
    \/ Open /\ \E f \in 0..6 : NormalMode(f)
    \/ Open /\ \E m \in ChannelMode, f \in { 0, 2 } : SetChannelMode(1, m, f)
    \/ Open /\ \E g \in { \h3F, \h40 }, f \in 0..1 : SetChannelGain(2, g, f)
    \/ Open /\ \E sr \in { "Continuous", "Lowest" } : SetNormalScanRate(sr, 0)
    \/ Open /\ \E sr \in { "Highest", "Low" } : SetLowPowerScanRate(sr, 0)
    \/ Open /\ \E e \in BOOLEAN : EnableMaxoutCheck(e, 0)
    \/ Open /\ \E e \in BOOLEAN : EnableButtonTimeout(e, 0)
    \/ Open /\ \E p \in InterruptPolarity : SetInterruptPolarity(p, 0)
    \/ Open /\ \E e \in BOOLEAN : EnableButtonPressDetectionAlgorithm(e, 0)
    \/ Open /\ \E e \in BOOLEAN : EnableResetOfButtonBaselineTracking(e, 0)
    \/ Open /\ \E v \in { \h07, \h08 } : SetBaselineTrackingIncrementNp(v, 0)
    \/ Open /\ \E v \in { \h02, \hFF } : SetBaselineTrackingIncrementLp(v, 0)
    \/ Open /\ \E e \in BOOLEAN : SetBaselineTrackingPause(3, e, 0)
    \/ Open /\ \E e \in BOOLEAN : IncludeChannelInMaxWinAlgorithm(0, e, 0)
    \/ Open /\ \E v \in { \h00, \h05, \h08 }, f \in 0..1 : SetLcDivider(v, f)
    \/ Open /\ \E v \in { \h0F, \h10 } : SetHysteresis(v, 0)
    \/ Open /\ \E v \in { \h03, \h08 } : SetAntitwist(v, 0)
    \/ Open /\ \E e \in BOOLEAN : IncludeChannelInAnticommonAlgorithm(2, e, 0)
    \/ Open /\ \E e \in BOOLEAN : IncludeChannelInAntideformAlgorithm(1, e, 0)
    \/ Open /\ \E p \in OutputPolarity : SetOutputPolarity(3, p, 0)
    \/ Open /\ \E p \in DataPolarity : SetDataPolarity(0, p, 0)
    \/ Open /\ \E ch \in { 0, 2 } : SetCounterScale(ch, "Two", 0)
    \/ Open /\ \E ch \in { 0, 3 }, cfg \in SomeSensorConfigs, f \in 0..1 : SetSensorConfig(ch, cfg, f)
    \/ Open /\ \E ch \in { 1, 3 } : SetFastTrackingFactor(ch, "One", 0)
    \/ Open /\ \E cfg \in SomeDeviceConfigs, f \in { 0, 12, 19 } : SetDeviceConfiguration(cfg, f)
    \/ Open /\ \E f \in { 0, 4, 9 } : ConfigureChannel(1, ChanCfg(3), f)
    \/ Open /\ \E ch \in { 0, 3 }, raw \in { <<0, 0, 0>>, <<\hE8, \h03, 0>> }, f \in 0..1 : ReadRawData(ch, raw, f)
    \/ Open /\ \E d \in { <<\h34, \h12>>, <<\h00, \h80>> } : ReadButtonData(2, d, 0)
    \/ Open /\ \E i \in InpByte : ReadStatus(i, 0)
    \/ Open /\ \E i \in InpByte : ReadOutputLogicStates(i, 0)
    \/ Open /\ \E f \in 0..1 : ReadDeviceId(\h01, f)
    \/ Open /\ \E f \in 0..1 : ReadManufacturerId(<<\h49, \h54>>, f)

Spec == Init /\ [][Next]_vars

\* C10 as stated: whenever the most recent successful write to Reset is the 0
\* written by normal_mode, the divider shadow is the low 3 bits of LcDivider and
\* each cycle-count shadow the low 5 bits of its sensor-config register.
C10_ShadowNeverStale ==
    reset_by = "normal_mode" =>
        /\ lcdiv = Reg(dev, "LcDivider") % 8
        /\ \A k \in Channel : Shadow(k) = Reg(dev, sensor_config(k)) % 32

\* C10 amended: the same, in the states where moreover no write to LcDivider or to
\* a sensor-config register has succeeded since that normal_mode call.
C10_ShadowFreshUntilWritten ==
    (reset_by = "normal_mode" /\ ~cfg_touched) =>
        /\ lcdiv = Reg(dev, "LcDivider") % 8
        /\ \A k \in Channel : Shadow(k) = Reg(dev, sensor_config(k)) % 32

\* C10 witness: normal_mode returned Ok on a device whose divider had been set to
\* 5, the shadow has left its default 3, and a later call left the registers alone
C10_Witness ==
    /\ reset_by = "normal_mode" /\ ~cfg_touched
    /\ call.op = "normal_mode" /\ ret.err = "Ok"
    /\ Reg(dev, "LcDivider") = 5 /\ lcdiv = 5
    /\ sency0 # 4

\* the five shadows: the cycle counts of channels 0..3, then the divider
Shadows == <<sency0, sency1, sency2, sency3, lcdiv>>

\* C11: until normal_mode is first called the shadows are the construction
\* placeholders 4, 4, 4, 4 and 3, whatever else is called, and read_raw_data
\* converts with cycle count 4 and divider 3; no call other than normal_mode
\* changes a shadow.
C11_PlaceholdersUntilNormalMode ==
    /\ [](~nm_called =>
            /\ Shadows = <<4, 4, 4, 4, 3>>
            /\ (call.op = "read_raw_data" /\ ret.err = "Ok" /\ RawValue(call.inp) # 0) =>
                  ret.val = << Converted(4, 3, RawValue(call.inp)) >>)
    /\ [][call'.op # "normal_mode" => Shadows' = Shadows]_vars

\* C11 witness: before any normal_mode, set_lc_divider(5) was the second call and
\* wrote the register, and the divider shadow is still 3
C11_Witness ==
    /\ ~nm_called /\ ncalls = 2
    /\ call.op = "set_lc_divider" /\ ret.err = "Ok"
    /\ Reg(dev, "LcDivider") = 5 /\ lcdiv = 3

-----------------------------------------------------------------------------
(* SpecBits: on a device whose registers hold any byte, the caller calls   *)
(* set_register_bits(R, b), then clear_register_bits(R, b), and then the   *)
(* same pair again, on a working transport.                                *)
(* pc counts the calls; hist holds R, b and the value R held at the start. *)

\* the masks b: no bit, single bits, runs of bits, mixed bits, every bit
BitMasks == { \h00, \h01, \h10, \h80, \h0F, \h3C, \hA5, \hFF }

PairSetRegisterBits(r, b) ==
    /\ pc \in { 0, 2 }
    /\ pc = 2 => (r = hist[1] /\ b = hist[2])
    /\ Return(set_register_bits(Ctx(0, <<>>), r, b), "set_register_bits", <<r, b>>, <<>>)
    /\ pc' = pc + 1
    /\ hist' = IF pc = 0 THEN <<r, b, Reg(dev, r)>> ELSE hist

PairClearRegisterBits ==
    /\ pc \in { 1, 3 }
    /\ Return(clear_register_bits(Ctx(0, <<>>), hist[1], hist[2]), "clear_register_bits", <<hist[1], hist[2]>>, <<>>)
    /\ pc' = pc + 1
    /\ UNCHANGED hist

InitBits == \E v \in Byte : New(v)

NextBits ==
    \/ pc = 0 /\ \E r \in { q \in Register : ~is_read_only(q) }, b \in BitMasks : PairSetRegisterBits(r, b)
    \/ pc = 2 /\ PairSetRegisterBits(hist[1], hist[2])
    \/ PairClearRegisterBits

SpecBits == InitBits /\ [][NextBits]_vars

\* C12: after set_register_bits(R, b) then clear_register_bits(R, b) on a
\* writable register R that held v, R holds v with the bits of b forced to 0 and
\* every other bit as in v; after the pair is repeated R holds the same value.
\* After the set alone R holds v with the bits of b forced to 1.
C12_SetThenClear ==
    /\ pc \in { 2, 4 } =>
          \A i \in 0..7 : Bit(Reg(dev, hist[1]), i) = IF Bit(hist[2], i) = 1 THEN 0 ELSE Bit(hist[3], i)
    /\ pc \in { 1, 3 } =>
          \A i \in 0..7 : Bit(Reg(dev, hist[1]), i) = IF Bit(hist[2], i) = 1 THEN 1 ELSE Bit(hist[3], i)
    /\ pc > 0 => \A a \in DOMAIN dev : a # addr(hist[1]) => dev[a] = hist[3]

\* C12 witness: the pair with mask 0xA5 was applied twice to Hyst holding 0xFF,
\* which now holds 0x5A
C12_Witness ==
    pc = 4 /\ hist = <<"Hyst", \hA5, \hFF>> /\ Reg(dev, "Hyst") = \h5A /\ ret.err = "Ok"

-----------------------------------------------------------------------------
(* SpecMasks: the constants of two channel instances are looked up for a   *)
(* shared register.  hist holds what was looked up.                        *)

\* the registers several channels share, and the fast-tracking registers
SharedRegisters == { "En", "BtPauseMaxWin", "OpolDpol", "CommonDeform", "Cntsc", "Ftf0", "Ftf1_2", "Ftf3" }

\* the bits the instance of channel ch claims in register r (none in a
\* fast-tracking register other than its own)
claimed_bits(ch, r) ==
    CASE r = "En" -> BitOr(EN_BIT(ch), LPEN_BIT(ch))
      [] r = "BtPauseMaxWin" -> BitOr(BTPAUSE_BIT(ch), MAXWIN_BIT(ch))
      [] r = "OpolDpol" -> BitOr(OPOL_BIT(ch), DPOL_BIT(ch))
      [] r = "CommonDeform" -> BitOr(ANTICOM_BIT(ch), ANTIDFORM_BIT(ch))
      [] r = "Cntsc" -> CNTSC_MASK(ch)
      [] r = ftf(ch) -> FTF_MASK(ch)
      [] OTHER -> 0

\* the offset of the 2-bit field channel ch has in register r, -1 if it has none
field_offset(ch, r) ==
    CASE r = "Cntsc" -> CNTSC_OFFSET(ch)
      [] r = ftf(ch) -> FTF_OFFSET(ch)
      [] OTHER -> -1

\* how many look-ups are made
MaxLookUps == 2

LookUp(ch, r) ==
    /\ Len(hist) < MaxLookUps
    /\ hist' = Append(hist, [ch |-> ch, reg |-> r, bits |-> claimed_bits(ch, r), off |-> field_offset(ch, r)])
    /\ UNCHANGED <<dev, sency0, sency1, sency2, sency3, lcdiv, call, ret, bus, pre, ncalls, reset_by, cfg_touched, nm_called, pc>>

InitMasks == New(0)

NextMasks == \E ch \in Channel, r \in SharedRegisters : LookUp(ch, r)

SpecMasks == InitMasks /\ [][NextMasks]_vars

\* C13: the bits two different channels claim in the same shared register (En,
\* BtPauseMaxWin, OpolDpol, CommonDeform, Cntsc, Ftf1_2) have no bit in common,
\* and each 2-bit field mask is 3 << its offset.
C13_DisjointBits ==
    /\ \A i, j \in 1..Len(hist) :
          (hist[i].reg = hist[j].reg /\ hist[i].ch # hist[j].ch) =>
              \A n \in 0..7 : ~(Bit(hist[i].bits, n) = 1 /\ Bit(hist[j].bits, n) = 1)
    /\ \A i \in 1..Len(hist) :
          /\ hist[i].off >= 0 => hist[i].bits = 3 * (2 ^ hist[i].off)
          /\ hist[i].reg \in { "En", "BtPauseMaxWin", "OpolDpol", "CommonDeform" } =>
                Cardinality({ n \in 0..7 : Bit(hist[i].bits, n) = 1 }) = 2

\* C13 witness: the fields of channels 1 and 2 in Ftf1_2 were looked up
C13_Witness ==
    /\ Len(hist) >= 2
    /\ hist[1] = [ch |-> 1, reg |-> "Ftf1_2", bits |-> \h30, off |-> 4]
    /\ hist[2] = [ch |-> 2, reg |-> "Ftf1_2", bits |-> \hC0, off |-> 6]

-----------------------------------------------------------------------------
(* Further claims on a single call (SpecCall).                             *)

\* C14: after set_channel_mode(c, m) returns Ok, whatever En held, En's bits
\* (c, 4 + c) are (0,0) for Disabled, (1,0) for NormalMode and (1,1) for
\* NormalAndLowPowerMode, the other six bits of En are as before, and no other
\* register has changed.
C14_ChannelMode ==
    (call.op = "set_channel_mode" /\ ret.err = "Ok") =>
        LET ch == call.arg[1]
            m == call.arg[2]
            v == Reg(pre, "En")
            w == Reg(dev, "En")
        IN /\ <<Bit(w, ch), Bit(w, 4 + ch)>> =
                 CASE m = "Disabled" -> <<0, 0>>
                   [] m = "NormalMode" -> <<1, 0>>
                   [] m = "NormalAndLowPowerMode" -> <<1, 1>>
           /\ \A n \in (0..7) \ { ch, 4 + ch } : Bit(w, n) = Bit(v, n)
           /\ \A a \in DOMAIN dev : a # addr("En") => dev[a] = pre[a]

\* C14 witness: channel 1 was switched to NormalMode on an En of 0xFF, which
\* cleared its low-power bit
C14_Witness ==
    /\ call.op = "set_channel_mode" /\ call.arg = <<1, "NormalMode">> /\ ret.err = "Ok"
    /\ Reg(pre, "En") = \hFF /\ Reg(dev, "En") = \hDF

\* C15: a call that returns WriteToReadOnly has issued no bus transaction and has
\* left the device as it was, for write_register and for set_register_bits and
\* clear_register_bits (modify_register) on a read-only register alike.
C15_WriteToReadOnlyTouchesNothing ==
    ret.err = "WriteToReadOnly" => (bus = <<>> /\ dev = pre)

\* the part of C15 about write_register alone
C15_WriteRegisterTouchesNothing ==
    (ret.err = "WriteToReadOnly" /\ call.op = "write_register") => (bus = <<>> /\ dev = pre)

-----------------------------------------------------------------------------
(* Composite operations: order of the transactions and first failure.     *)

\* the transactions of set_device_configuration when nothing fails, in order
SdcOrder ==
    << <<"write", "En">>, <<"write", "Gain0">>, <<"write", "Gain1">>, <<"write", "Gain2">>,
       <<"write", "Gain3">>, <<"write", "NpScanRate">>, <<"write", "LpScanRate">>,
       <<"write", "IntPol">>, <<"write", "NpBaseInc">>, <<"write", "LpBaseInc">>,
       <<"write", "BtPauseMaxWin">>, <<"write", "LcDivider">>, <<"write", "Hyst">>,
       <<"write", "Twist">>, <<"write", "CommonDeform">>, <<"write", "OpolDpol">>,
       <<"write", "Cntsc">>, <<"write", "Sensor0Config">>, <<"write", "Sensor1Config">>,
       <<"write", "Sensor2Config">>, <<"write", "Sensor3Config">>,
       <<"write_read", "Ftf0">>, <<"write", "Ftf0">>,
       <<"write_read", "Ftf3">>, <<"write", "Ftf3">>, <<"write", "Ftf1_2">> >>

\* the transactions of SdcOrder that write a field of cfg that is out of range
SdcInvalid(cfg) ==
    { i \in 1..Len(SdcOrder) :
        CASE i = 2 -> cfg.ch0.gain >= \h40
          [] i = 3 -> cfg.ch1.gain >= \h40
          [] i = 4 -> cfg.ch2.gain >= \h40
          [] i = 5 -> cfg.ch3.gain >= \h40
          [] i = 9 -> cfg.baseline_tracking_increment_np >= \h08
          [] i = 10 -> cfg.baseline_tracking_increment_lp >= \h08
          [] i = 12 -> cfg.lc_divider >= \h08
          [] i = 13 -> cfg.hysteresis >= \h10
          [] i = 14 -> cfg.antitwist >= \h08
          [] i = 18 -> cfg.ch0.sensor_config.cycle_count >= \h20
          [] i = 19 -> cfg.ch1.sensor_config.cycle_count >= \h20
          [] i = 20 -> cfg.ch2.sensor_config.cycle_count >= \h20
          [] i = 21 -> cfg.ch3.sensor_config.cycle_count >= \h20
          [] OTHER -> FALSE }

\* the transactions of configure_channel on channel ch when nothing fails
CcOrder(ch) ==
    LET g == <<"Gain0", "Gain1", "Gain2", "Gain3">>[ch + 1]
        s == <<"Sensor0Config", "Sensor1Config", "Sensor2Config", "Sensor3Config">>[ch + 1]
        f == <<"Ftf0", "Ftf1_2", "Ftf1_2", "Ftf3">>[ch + 1]
        Rw(r) == << <<"write_read", r>>, <<"write", r>> >>
    IN Rw("En") \o << <<"write", g>> >> \o Rw("OpolDpol") \o Rw("Cntsc") \o Rw(f)
         \o Rw("OpolDpol") \o << <<"write", s>> >> \o Rw("BtPauseMaxWin")
         \o Rw("CommonDeform") \o Rw("CommonDeform") \o Rw("BtPauseMaxWin")

\* the transactions of CcOrder that write a field of cfg that is out of range
CcInvalid(cfg) ==
    (IF cfg.gain >= \h40 THEN { 3 } ELSE {}) \cup
    (IF cfg.sensor_config.cycle_count >= \h20 THEN { 12 } ELSE {})

\* registers d after the successful writes of log, in order
RECURSIVE Applied(_, _)
Applied(d, log) ==
    IF log = <<>> THEN d
    ELSE LET e == Head(log)
         IN Applied(IF e.kind = "write" /\ e.ok /\ e.reg \in DOMAIN d
                    THEN [d EXCEPT ![e.reg] = e.data[1]] ELSE d,
                    Tail(log))

\* C16: in set_device_configuration and configure_channel the first failing step
\* ends the call with its error: the transactions issued are the steps before it,
\* in order, a failed transaction is the last one on the bus (no retry, no
\* rollback, no later step), a field out of range stops the call before its own
\* write, and the device holds what the successful writes put there. In
\* set_register_bits and clear_register_bits (modify_register) a failed read is
\* followed by no write.
C16_FirstFailure ==
    /\ \A i \in 1..Len(bus) : ~bus[i].ok => i = Len(bus)
    /\ call.op \in { "set_device_configuration", "configure_channel" } =>
          LET sdc == call.op = "set_device_configuration"
              order == IF sdc THEN SdcOrder ELSE CcOrder(call.arg[1])
              bad == IF sdc THEN SdcInvalid(call.arg[1]) ELSE CcInvalid(call.arg[2])
              n == Len(bus)
          IN /\ n <= Len(order)
             /\ \A i \in 1..n : <<bus[i].kind, bus[i].reg>> = <<order[i][1], addr(order[i][2])>>
             /\ \A i \in 1..n : i \notin bad
             /\ ret.err = "I2c" <=> (n > 0 /\ ~bus[n].ok)
             /\ ret.err = "I2c" => n = call.fail
             /\ ret.err = "InvalidParameter" <=> ((n = 0 \/ bus[n].ok) /\ n + 1 \in bad)
             /\ ret.err = "Ok" <=> (n = Len(order) /\ bus[n].ok)
             /\ dev = Applied(pre, bus)
    /\ (call.op \in { "set_register_bits", "clear_register_bits" } /\ call.fail = 1) =>
          /\ ret.err = "I2c"
          /\ Len(bus) = 1 /\ bus[1].kind = "write_read" /\ ~bus[1].ok
          /\ dev = pre

\* C16 witness: set_device_configuration with a hysteresis of 16 stopped after its
\* twelfth write, the LcDivider write before it applied and Hyst as it was
C16_Witness ==
    /\ call.op = "set_device_configuration" /\ ret.err = "InvalidParameter"
    /\ call.arg[1].hysteresis = \h10
    /\ Len(bus) = 12 /\ bus[12].ok
    /\ Reg(dev, "LcDivider") = call.arg[1].lc_divider /\ Reg(pre, "LcDivider") # Reg(dev, "LcDivider")
    /\ Reg(dev, "Hyst") = Reg(pre, "Hyst")

\* C17: with every field in range and no transport failure, set_device_configuration
\* returns Ok after exactly the 26 transactions of SdcOrder: 24 writes, one per
\* register, in the order En, Gain0..3, NpScanRate, LpScanRate, IntPol, NpBaseInc,
\* LpBaseInc, BtPauseMaxWin, LcDivider, Hyst, Twist, CommonDeform, OpolDpol, Cntsc,
\* Sensor0..3Config, Ftf0, Ftf3, Ftf1_2, and two reads, of Ftf0 and of Ftf3, each
\* right before the write of the same register.
C17_WriteOrder ==
    (call.op = "set_device_configuration" /\ call.fail = 0 /\ SdcInvalid(call.arg[1]) = {}) =>
        LET writes == { i \in 1..Len(bus) : bus[i].kind = "write" }
            reads == { i \in 1..Len(bus) : bus[i].kind = "write_read" }
        IN /\ ret.err = "Ok"
           /\ [i \in 1..Len(bus) |-> <<bus[i].kind, bus[i].reg>>] =
                 [i \in 1..Len(SdcOrder) |-> <<SdcOrder[i][1], addr(SdcOrder[i][2])>>]
           /\ Cardinality(writes) = 24
           /\ \A i, j \in writes : bus[i].reg = bus[j].reg => i = j
           /\ Cardinality(reads) = 2
           /\ \A i \in reads : /\ bus[i].reg \in { addr("Ftf0"), addr("Ftf3") }
                               /\ bus[i + 1].kind = "write" /\ bus[i + 1].reg = bus[i].reg
           /\ \A i \in 1..Len(bus) : bus[i].ok

\* C17 witness: a configuration was applied in full, Ftf1_2 written last
C17_Witness ==
    /\ call.op = "set_device_configuration" /\ call.fail = 0 /\ ret.err = "Ok"
    /\ Len(bus) = 26 /\ bus[26].kind = "write" /\ bus[26].reg = addr("Ftf1_2")
    /\ bus[22].kind = "write_read" /\ bus[24].kind = "write_read"

-----------------------------------------------------------------------------
(* The mode transitions on the Reset register, in any sequence of calls    *)
(* (Spec).                                                                 *)

\* the transactions of normal_mode when nothing fails, in order
NormalModeOrder ==
    << <<"write_read", "LcDivider">>, <<"write_read", "Sensor0Config">>,
       <<"write_read", "Sensor1Config">>, <<"write_read", "Sensor2Config">>,
       <<"write_read", "Sensor3Config">>, <<"write", "Reset">> >>

\* C18: full_reset issues exactly one transaction, the write of 0x10 to Reset;
\* config_mode exactly one, the write of 0x01 to Reset; every call of normal_mode
\* issues one-byte reads of LcDivider, Sensor0Config, Sensor1Config, Sensor2Config
\* and Sensor3Config, in this order, and then exactly one write, of 0x00 to Reset;
\* a transport failure ends the sequence at the failed transaction, so Reset is
\* never written before all five readbacks have succeeded.
C18_ResetProtocol ==
    /\ call.op \in { "full_reset", "config_mode" } =>
          /\ Len(bus) = 1
          /\ bus[1].kind = "write" /\ bus[1].reg = addr("Reset")
          /\ bus[1].data = << IF call.op = "full_reset" THEN \h10 ELSE \h01 >>
          /\ bus[1].ok <=> call.fail = 0
    /\ call.op = "normal_mode" =>
          LET n == Len(bus)
          IN /\ n = IF call.fail = 0 THEN 6 ELSE call.fail
             /\ \A i \in 1..n :
                   /\ <<bus[i].kind, bus[i].reg>> = <<NormalModeOrder[i][1], addr(NormalModeOrder[i][2])>>
                   /\ bus[i].ok <=> i # call.fail
                   /\ (bus[i].kind = "write_read" /\ bus[i].ok) =>
                         bus[i].data = <<pre[bus[i].reg]>>
                   /\ bus[i].kind = "write" => bus[i].data = <<0>>
             /\ ret.err = "Ok" <=> call.fail = 0
             /\ WroteOk(bus, addr("Reset")) =>
                   \A i \in 1..5 : bus[i].kind = "write_read" /\ bus[i].ok

\* C18 witness: normal_mode was called for the second time, on a device whose
\* other registers still hold 0xFF, and read back all five registers again
C18_Witness ==
    /\ ncalls = 2 /\ call.op = "normal_mode" /\ ret.err = "Ok"
    /\ Reg(pre, "Reset") = 0 /\ Reg(pre, "Hyst") = \hFF /\ reset_by = "normal_mode"
    /\ Len(bus) = 6 /\ bus[1].data = <<\hFF>> /\ bus[6].kind = "write"

-----------------------------------------------------------------------------
(* The single-field setters on shared registers (SpecCall).                *)

\* the setters of one bit or one 2-bit field of a shared register
FieldSetters ==
    { "set_interrupt_polarity", "enable_maxout_check", "enable_button_timeout",
      "enable_button_press_detection_algorithm", "enable_reset_of_button_baseline_tracking",
      "set_baseline_tracking_pause", "include_channel_in_max_win_algorithm",
      "include_channel_in_anticommon_algorithm", "include_channel_in_antideform_algorithm",
      "set_output_polarity", "set_data_polarity", "set_counter_scale", "set_fast_tracking_factor" }

\* the register a field setter is about, and the positions of its own bits
OwnField(op, arg) ==
    CASE op = "set_interrupt_polarity" -> <<"IntPol", { 2 }>>
      [] op = "enable_maxout_check" -> <<"IntPol", { 0 }>>
      [] op = "enable_button_timeout" -> <<"IntPol", { 1 }>>
      [] op = "enable_button_press_detection_algorithm" -> <<"IntPol", { 3 }>>
      [] op = "enable_reset_of_button_baseline_tracking" -> <<"IntPol", { 4 }>>
      [] op = "set_baseline_tracking_pause" -> <<"BtPauseMaxWin", { 4 + arg[1] }>>
      [] op = "include_channel_in_max_win_algorithm" -> <<"BtPauseMaxWin", { arg[1] }>>
      [] op = "include_channel_in_anticommon_algorithm" -> <<"CommonDeform", { 4 + arg[1] }>>
      [] op = "include_channel_in_antideform_algorithm" -> <<"CommonDeform", { arg[1] }>>
      [] op = "set_output_polarity" -> <<"OpolDpol", { 4 + arg[1] }>>
      [] op = "set_data_polarity" -> <<"OpolDpol", { arg[1] }>>
      [] op = "set_counter_scale" -> <<"Cntsc", { 2 * arg[1], 2 * arg[1] + 1 }>>
      [] op = "set_fast_tracking_factor" ->
            CASE arg[1] = 0 -> <<"Ftf0", { 1, 2 }>>
              [] arg[1] = 1 -> <<"Ftf1_2", { 4, 5 }>>
              [] arg[1] = 2 -> <<"Ftf1_2", { 6, 7 }>>
              [] arg[1] = 3 -> <<"Ftf3", { 0, 1 }>>

\* C19: whatever byte its register held and whatever the call returned, a
\* single-field setter on a shared register issues transactions on its own
\* register only, leaves every other register as it was, and changes its own
\* register at most in its own bit or 2-bit field; set_fast_tracking_factor on
\* channel 1 leaves bits 7..6 of Ftf1_2 (channel 2's field) as they were, and on
\* channel 2 bits 5..4.
C19_SetterFrame ==
    call.op \in FieldSetters =>
        LET own == OwnField(call.op, call.arg)
            a == addr(own[1])
        IN /\ \A i \in 1..Len(bus) : bus[i].reg = a /\ Len(bus[i].data) <= 1
           /\ \A x \in DOMAIN dev : x # a => dev[x] = pre[x]
           /\ \A n \in (0..7) \ own[2] : Bit(dev[a], n) = Bit(pre[a], n)
           /\ (call.op = "set_fast_tracking_factor" /\ call.arg[1] \in { 1, 2 }) =>
                 LET other == IF call.arg[1] = 1 THEN \hC0 ELSE \h30
                 IN BitAnd(dev[a], other) = BitAnd(pre[a], other)
           /\ ret.err = "Ok" => (Len(bus) = 2 /\ bus[2].kind = "write")

\* C19 witness: set_fast_tracking_factor(Channel1, Zero) on an Ftf1_2 of 0xFF
\* cleared bits 5..4 and kept channel 2's bits 7..6
C19_Witness ==
    /\ call.op = "set_fast_tracking_factor" /\ call.arg = <<1, "Zero">> /\ ret.err = "Ok"
    /\ Reg(pre, "Ftf1_2") = \hFF /\ Reg(dev, "Ftf1_2") = \hCF

-----------------------------------------------------------------------------
(* The range of the shadows, in any sequence of calls (Spec).              *)

\* C20: in every reachable state each cycle-count shadow is in 0..31 and the
\* divider shadow in 0..7; so for every channel the window
\* 128 * (1 + cc) * (2 << d) is at most 2^20 and is what the 32-bit arithmetic
\* of read_raw_data computes, and 30 * window * 44_000_000 is below 2^64 and is
\* what its 64-bit arithmetic computes: no intermediate wraps.
C20_ShadowRange ==
    /\ lcdiv \in 0..7
    /\ \A ch \in Channel :
          LET cc == Shadow(ch)
              w == ExactWindow(cc, lcdiv)
              p == ExactProduct(w)
          IN /\ cc \in 0..31
             /\ ~Less(Dig(1048576), w)
             /\ Len(w) <= U32_DIGITS
             /\ window_u32(cc, lcdiv) = w
             /\ Len(p) <= U64_DIGITS
             /\ Wrap(MulS(Wrap(MulS(w, 30), U64_DIGITS), 44000000), U64_DIGITS) = p

\* C20 witness: after normal_mode on a device answering 0xFF a reading was
\* converted with cycle count 31 and divider 7, the window exactly 2^20
C20_Witness ==
    /\ call.op = "read_raw_data" /\ ret.err = "Ok" /\ RawValue(call.inp) # 0
    /\ lcdiv = 7 /\ Shadow(call.arg[1]) = 31
    /\ ExactWindow(31, 7) = Dig(1048576)

-----------------------------------------------------------------------------
(* normal_mode under transport failures, in any sequence of calls (Spec).  *)

\* the shadows normal_mode derives from the registers d
ReadBack(d) ==
    << BitAnd(Reg(d, "Sensor0Config"), \h1F), BitAnd(Reg(d, "Sensor1Config"), \h1F),
       BitAnd(Reg(d, "Sensor2Config"), \h1F), BitAnd(Reg(d, "Sensor3Config"), \h1F),
       BitAnd(Reg(d, "LcDivider"), \h07) >>

\* C21: a call of normal_mode in which one of the five reads fails returns the
\* transport error, leaves all five shadows as they were and issues no write;
\* a call in which the five reads succeed replaces all five shadows by the
\* values read, whether the final write to Reset succeeds or fails, and returns
\* the transport error when it fails.
C21_AllOrNothing ==
    [][call'.op = "normal_mode" =>
          /\ call'.fail \in 1..5 =>
                /\ ret'.err = "I2c"
                /\ Shadows' = Shadows
                /\ \A i \in 1..Len(bus') : bus'[i].kind # "write"
                /\ dev' = dev
          /\ call'.fail \notin 1..5 =>
                /\ Shadows' = ReadBack(dev)
                /\ \A i \in 1..5 : bus'[i].kind = "write_read" /\ bus'[i].ok
                /\ ret'.err = (IF call'.fail = 0 THEN "Ok" ELSE "I2c")
          /\ call'.fail = 6 =>
                /\ bus'[6].kind = "write" /\ ~bus'[6].ok
                /\ dev' = dev
          /\ Shadows' \in { Shadows, ReadBack(dev) }]_vars

\* C21 witness: on a device answering 0xFF the fourth read of normal_mode failed
\* after three reads of 0xFF, and the shadows are still the construction values
C21_Witness ==
    /\ call.op = "normal_mode" /\ call.fail = 4 /\ ret.err = "I2c"
    /\ Len(bus) = 4 /\ bus[1].data = <<\hFF>> /\ bus[3].data = <<\hFF>>
    /\ Shadows = <<4, 4, 4, 4, 3>>

\* the other case of C21: the write to Reset failed after five reads of 0xFF,
\* and the shadows are the values read
C21_WriteFailed ==
    /\ call.op = "normal_mode" /\ call.fail = 6 /\ ret.err = "I2c"
    /\ Shadows = <<31, 31, 31, 31, 7>> /\ Reg(dev, "Reset") = \hFF

-----------------------------------------------------------------------------
(* SpecAgree: configure_channel on the four channels, in any order, and    *)
(* then set_device_configuration with the same four ChannelConfigs.        *)

\* the channel configurations compared: the samples, and one with the max-win
\* flag alone set
AgreeChannelConfigs ==
    ChannelConfigs \cup { [ChanCfg(0) EXCEPT !.enable_max_win_button_algorithm = TRUE] }

\* what configure_channel was given for channel ch: <<cfg>>, or <<>> if not yet called
Given(ch) == IF hist = <<>> THEN <<>> ELSE hist[ch + 1]

AgreeConfigureChannel(ch, cfg) ==
    /\ pc < 4
    /\ Given(ch) = <<>>
    /\ Return(configure_channel(Ctx(0, <<>>), ch, cfg), "configure_channel", <<ch, cfg>>, <<>>)
    /\ pc' = pc + 1
    /\ hist' = [k \in 1..4 |-> IF k = ch + 1 THEN <<cfg>> ELSE Given(k - 1)]

AgreeSetDeviceConfiguration(y) ==
    /\ pc = 4
    /\ LET cfg == DevCfg(hist[1][1], hist[2][1], hist[3][1], hist[4][1], y)
       IN Return(set_device_configuration(Ctx(0, <<>>), cfg), "set_device_configuration", <<cfg>>, <<>>)
    /\ pc' = 5
    /\ UNCHANGED hist

\* the initial register contents compared: every bit starts at 0 and at 1
AgreeFill == { \hA5, \h5A }

InitAgree == \E b \in AgreeFill : New(b)

NextAgree ==
    \/ pc < 4 /\ \E ch \in Channel, cfg \in AgreeChannelConfigs : AgreeConfigureChannel(ch, cfg)
    \/ pc = 4 /\ \E y \in { 0, NDevCfg - 1 } : AgreeSetDeviceConfiguration(y)

SpecAgree == InitAgree /\ [][NextAgree]_vars

\* the registers made of per-channel bits, and the per-channel registers
AgreedRegisters ==
    { "En", "BtPauseMaxWin", "CommonDeform", "OpolDpol", "Gain0", "Gain1", "Gain2", "Gain3",
      "Sensor0Config", "Sensor1Config", "Sensor2Config", "Sensor3Config" }

\* C22: once configure_channel has been applied to the four channels, in any
\* order and on any register contents, with in-range ChannelConfigs, each of En,
\* BtPauseMaxWin, CommonDeform, OpolDpol, Gain0..3 and Sensor0..3Config holds
\* the byte that set_device_configuration then writes to it for a DeviceConfig
\* with the same four ChannelConfigs; all five calls return Ok.
C22_PerChannelAgreesWithBulk ==
    /\ pc \in 1..5 => ret.err = "Ok"
    /\ pc = 5 =>
          \A r \in AgreedRegisters :
             /\ \E i \in 1..Len(bus) : bus[i].kind = "write" /\ bus[i].reg = addr(r)
             /\ \A i \in 1..Len(bus) :
                   (bus[i].kind = "write" /\ bus[i].reg = addr(r)) => bus[i].data = <<Reg(pre, r)>>

\* C22 witness: on a device filled with 0xA5, channel 0 was configured Disabled
\* and channel 1 NormalMode with data polarity Inverted, and the bulk write of En
\* and OpolDpol found those bytes already there
C22_Witness ==
    /\ pc = 5 /\ ret.err = "Ok" /\ Reg(dev, "Reset") = \hA5
    /\ hist[1][1].mode = "Disabled" /\ hist[2][1].mode = "NormalMode"
    /\ hist[2][1].data_polarity = "Inverted"
    /\ Bit(Reg(pre, "En"), 0) = 0 /\ Bit(Reg(pre, "En"), 4) = 0
    /\ Bit(Reg(pre, "En"), 1) = 1 /\ Bit(Reg(pre, "En"), 5) = 0
    /\ Bit(Reg(pre, "OpolDpol"), 1) = 0
    /\ Reg(dev, "En") = Reg(pre, "En") /\ Reg(dev, "OpolDpol") = Reg(pre, "OpolDpol")

====
